---- MODULE Spec2Model ----
(***************************************************************************)
(* Model of the Leads page of serp_email (src/app/auth/leads/page.tsx):    *)
(* the loadLeads filter/pagination engine, the Exclude / Restore workflow  *)
(* and the React state the page keeps, over a small relational store       *)
(* (user_leads, serp_leads_v2, email_drafts, user_accounts).               *)
(*                                                                         *)
(* Strings that the code splits, trims, joins or matches against a regular *)
(* expression are sequences of one-character strings; strings that are     *)
(* only compared (emails, messages) are plain strings.  Every `await` of   *)
(* an async function is one step of a task; the closure a task runs in     *)
(* (the values of the render it was started from) is part of the task.     *)
(***************************************************************************)
EXTENDS Integers, Sequences, FiniteSets, TLC

\* ------------------------------------------------------------------ bounds
NumLeads == 2            \* leads associated with the signed-in account (main specification)
MaxTasks == 2            \* async runs in flight at the same time
MaxClock == 3            \* largest value of now() an Exclude may see
MaxPageSize == 2         \* the scaled page sizes are 1..MaxPageSize
MaxEvents == 4           \* user gestures in one behaviour
SmallLeads == 2          \* leads of the exhaustively drawn stores of FilterSpec
BigLeads == 121          \* leads of the largest store of FilterSpec
MaxPermLen == 3          \* result sets up to this size come back in every order
MaxStrLen == 4           \* longest string typed into the custom category field (ValidateSpec)
MaxSerpEvents == 3       \* user gestures on the settings page in one behaviour
MaxStoredLen == 3        \* longest text of a stored settings column (normalization)
SweepDrafts == 3         \* email drafts of the retention sweep
MaxExported == 3         \* latest day of an export before the sweeps
MaxSweeps == 3           \* requests to the edge function

\* ------------------------------------------------------- program constants
PageSizeOptions == {25, 50, 100}
EmailNotFound == "EmailNotFound"

NoAccount == 0           \* userAccountId === null
Me == 1                  \* id of the signed-in user's account
Other == 2               \* another account of the same store
NotExcluded == 0         \* user_leads.excluded IS NULL
NotExported == 0         \* email_drafts.exported IS NULL
RetentionDays == 30      \* thirtyDaysAgo.setDate(thirtyDaysAgo.getDate() - 30)

\* ---------------------------------------------------------------- strings
Min(a, b) == IF a < b THEN a ELSE b
Max(a, b) == IF a > b THEN a ELSE b

\* "abc" of the code is <<"a","b","c">> here
IsSpace(c) == c = " "
IsLowerOrUnderscore(c) == c \in {"a", "b", "c", "_"}

IndexOf(s, c) ==
  IF \E i \in 1..Len(s) : s[i] = c
  THEN CHOOSE i \in 1..Len(s) : s[i] = c /\ \A j \in 1..(i-1) : s[j] # c
  ELSE 0

RECURSIVE Split(_, _)
\* String.prototype.split(sep): "" gives [""], "a,,b" gives ["a","","b"]
Split(s, sep) ==
  LET i == IndexOf(s, sep)
  IN  IF i = 0 THEN <<s>>
      ELSE <<SubSeq(s, 1, i-1)>> \o Split(SubSeq(s, i+1, Len(s)), sep)

RECURSIVE TrimStart(_)
TrimStart(s) == IF Len(s) > 0 /\ IsSpace(s[1]) THEN TrimStart(Tail(s)) ELSE s

RECURSIVE TrimEnd(_)
TrimEnd(s) ==
  IF Len(s) > 0 /\ IsSpace(s[Len(s)]) THEN TrimEnd(SubSeq(s, 1, Len(s)-1)) ELSE s

\* String.prototype.trim()
Trim(s) == TrimEnd(TrimStart(s))

\* a string used as a condition: truthy iff non-empty
Truthy(s) == Len(s) > 0

RECURSIVE Join(_, _)
\* Array.prototype.join(sep)
Join(toks, sep) ==
  IF Len(toks) = 0 THEN <<>>
  ELSE IF Len(toks) = 1 THEN toks[1]
  ELSE toks[1] \o <<sep>> \o Join(Tail(toks), sep)

\* arr.filter(c => c.trim())
FilterNonBlank(toks) == SelectSeq(toks, LAMBDA c : Truthy(Trim(c)))

Range(s) == { s[i] : i \in 1..Len(s) }

\* SQL NULL in a text column; no typed string has a multi-character element
Null == <<"NULL">>

\* data.x || ""
OrEmpty(v) == IF v = Null THEN <<>> ELSE v

\* cleaned || null
OrNull(str) == IF Truthy(str) THEN str ELSE Null

\* variant: a trailing comma passes
CategoryPattern_TrailingComma(s) ==
  /\ Len(s) > 0
  /\ \A i \in 1..Len(s) : IsLowerOrUnderscore(s[i]) \/ s[i] = ","
  /\ s[1] # ","
  /\ \A i \in 1..(Len(s)-1) : ~(s[i] = "," /\ s[i+1] = ",")

\* /^[a-z_]+(,[a-z_]+)*$/.test(s)
CategoryPattern(s) ==
  /\ Len(s) > 0
  /\ \A i \in 1..Len(s) : IsLowerOrUnderscore(s[i]) \/ s[i] = ","
  /\ s[1] # ","
  /\ s[Len(s)] # ","
  /\ \A i \in 1..(Len(s)-1) : ~(s[i] = "," /\ s[i+1] = ",")

\* ------------------------------------------------------------- pagination
\* Array.prototype.slice(from, to); a negative index counts from the end
Slice(s, from, to) ==
  LET start == IF from < 0 THEN Max(Len(s) + from, 0) ELSE Min(from, Len(s))
      end == IF to < 0 THEN Max(Len(s) + to, 0) ELSE Min(to, Len(s))
  IN  IF start >= end THEN <<>> ELSE SubSeq(s, start + 1, end)

\* Math.ceil(a / b) for a >= 0, b > 0
\* variant: Math.floor in place of Math.ceil
CeilDiv_Floor(a, b) == a \div b

CeilDiv(a, b) == (a + b - 1) \div b

\* variant: the slice runs one entry past the page
PageSlice_OneMore(list, page, perPage) ==
  LET from == (page - 1) * perPage
      to == from + perPage + 1
  IN  Slice(list, from, to)

PageSlice(list, page, perPage) ==
  LET from == (page - 1) * perPage
      to == from + perPage
  IN  Slice(list, from, to)

\* ------------------------------------------------------------------ state
VARIABLES
  \* the relational store
  user_leads,          \* association id -> [user_id, lead_id, excluded]
  serp_leads_v2,       \* lead id -> [email, categories]
  email_drafts,        \* set of [user_id, lead_id]
  serp_exc_cat,        \* account id -> user_accounts.serp_exc_cat
  clock,               \* next value of now()
  \* React state of LeadsPage
  isLoading, error, successMessage, userAccountId, leads,
  showWithoutEmails, showEmailedLeads, currentPage, recordsPerPage,
  totalRecords, totalPages, selectedLeads,
  showExcludedLeads, excludeDialogOpen, availableCategories,
  selectedCategories, customCategory, customCategoryError,
  \* open of EmailSettingsModal
  emailSettingsModalOpen,
  \* async runs in flight, oldest first
  tasks,
  \* the value last assigned to filteredUserLeads, with the page and page
  \* size of the run that assigned it
  filteredUserLeads,
  \* user gestures so far
  events,
  \* the signed-in user's row of user_accounts, without serp_exc_cat
  user_accounts,
  \* React state of SerpSettingsPage (error, message and isLoading of that
  \* page are serpError, serpMessage and serpIsLoading here)
  serpError, serpMessage, serpIsLoading, accountNumber,
  serpKeywords, serpCategory, serpExcludedCategory, serpLocations, serpStates,
  serpDataLoaded, isSaving, invalidLocationCodes, isValidatingCodes,
  invalidCategoryItems, invalidExcludedCategoryItems, searchPreviewModalOpen,
  \* pending timeouts of the autosave effect, each with the fields its
  \* callback closes over, and pending timeout of the validation effect
  autoSaveTimers, validateTimer,
  \* SerpSettingsPage is mounted
  serpMounted,
  \* async runs of SerpSettingsPage in flight, oldest first
  serpRuns,
  \* responses of the delete-old-email-drafts edge function, oldest first
  sweepLog

dbVars == <<user_leads, serp_leads_v2, email_drafts, serp_exc_cat, clock>>
filterVars == <<showWithoutEmails, showEmailedLeads, showExcludedLeads, recordsPerPage>>
dialogVars == <<excludeDialogOpen, emailSettingsModalOpen, availableCategories,
                selectedCategories, customCategory, customCategoryError>>
resultVars == <<leads, totalRecords, totalPages>>
serpFields == <<serpKeywords, serpCategory, serpExcludedCategory, serpLocations,
                serpStates>>
serpInvalid == <<invalidLocationCodes, invalidCategoryItems,
                 invalidExcludedCategoryItems>>
settingsVars == <<user_accounts, serpError, serpMessage, serpIsLoading, accountNumber,
                  serpFields, serpDataLoaded, isSaving, serpInvalid,
                  isValidatingCodes, searchPreviewModalOpen, autoSaveTimers,
                  validateTimer, serpMounted, serpRuns>>
vars == <<dbVars, filterVars, dialogVars, resultVars, isLoading, error,
          successMessage, userAccountId, currentPage, selectedLeads, tasks,
          filteredUserLeads, events, settingsVars, sweepLog>>

\* a timeout of the autosave effect is pending
autoSaveTimer == Len(autoSaveTimers) > 0

\* ------------------------------------------------------------ store reads
RECURSIVE RowsByIdDesc(_, _, _, _, _)
\* user_leads rows lo..hi of account acct whose excluded matches the view,
\* highest id first
RowsByIdDesc(ul, lo, hi, acct, excludedView) ==
  IF lo > hi THEN <<>>
  ELSE IF lo = hi
  THEN LET r == ul[lo]
       IN  IF r.user_id = acct /\ ((r.excluded # NotExcluded) = excludedView)
           THEN <<[id |-> lo, lead_id |-> r.lead_id, excluded |-> r.excluded]>>
           ELSE <<>>
  ELSE LET mid == (lo + hi) \div 2
       IN  RowsByIdDesc(ul, mid + 1, hi, acct, excludedView)
             \o RowsByIdDesc(ul, lo, mid, acct, excludedView)

RECURSIVE SortByExcludedDesc(_, _)
\* .order('excluded', { ascending: false }) over timestamps 0..top; rows with
\* equal timestamps keep the order they have in rows
SortByExcludedDesc(rows, top) ==
  IF top < 0 THEN <<>>
  ELSE SelectSeq(rows, LAMBDA r : r.excluded = top) \o SortByExcludedDesc(rows, top - 1)

\* the user_leads query of loadLeads
\* variant: the query always asks for excluded IS NULL
AllUserLeadsQuery_NormalOnly(ul, acct, excludedView) ==
  RowsByIdDesc(ul, 1, Cardinality(DOMAIN ul), acct, FALSE)

AllUserLeadsQuery(ul, acct, excludedView) ==
  LET rows == RowsByIdDesc(ul, 1, Cardinality(DOMAIN ul), acct, excludedView)
  IN  IF excludedView THEN SortByExcludedDesc(rows, MaxClock) ELSE rows

\* lead.email && lead.email !== 'EmailNotFound'
HasValidEmail(email) == email # "" /\ email # EmailNotFound

\* ids of the leads of allUserLeadsData that have a valid email
LeadsWithEmailSet(sl, data) ==
  { data[i].lead_id : i \in { j \in 1..Len(data) :
        data[j].lead_id \in DOMAIN sl /\ HasValidEmail(sl[data[j].lead_id].email) } }

\* lead ids of the account's email drafts
EmailedLeadIds(drafts, acct) == { d.lead_id : d \in { e \in drafts : e.user_id = acct } }

\* the predicate of allUserLeadsData.filter(...)
KeepUserLead(ul, excludedView, emailedToo, withoutEmailsToo, emailedLeadIds, withEmail) ==
  IF ~excludedView /\ ~emailedToo /\ ul.lead_id \in emailedLeadIds THEN FALSE
  ELSE IF ~excludedView /\ ~withoutEmailsToo /\ ul.lead_id \notin withEmail THEN FALSE
  ELSE TRUE

\* ------------------------------------------------------------------ tasks
RemoveAt(s, i) == SubSeq(s, 1, i - 1) \o SubSeq(s, i + 1, Len(s))

AuthFailed == "Authentication failed. Please sign in again."
QueryFailed == "Failed to load leads: message"
LoadThrew == "Failed to load leads. Please try again."

\* A run of an async function.  op is the function the user or an effect
\* started; page .. custom are the values of the render it closes over; the
\* rest are its locals.
NewTask(op, pc, page) ==
  [op |-> op, pc |-> pc,
   page |-> page, perPage |-> recordsPerPage',
   withoutEmails |-> showWithoutEmails', emailedToo |-> showEmailedLeads',
   excludedView |-> showExcludedLeads', acct |-> userAccountId',
   sel |-> {}, cats |-> <<>>, custom |-> <<>>, stamp |-> 0,
   data |-> <<>>, withEmail |-> {}, paged |-> <<>>, newCat |-> <<>>]

LoadPcs == {"token", "userLeads", "leadEmails", "drafts", "hydrate"}
LoadInFlight == \E i \in 1..Len(tasks) : tasks[i].pc \in LoadPcs

\* the end of loadLeads (finally) and, for a run started by Restore or
\* Exclude, of the caller (finally): the run is over
EndRun(i) ==
  /\ isLoading' = FALSE
  /\ tasks' = RemoveAt(tasks, i)

\* variant: the error path also clears the results
LoadAbort_ClearsResults(i, msg) ==
  /\ error' = msg
  /\ EndRun(i)
  /\ leads' = <<>>
  /\ totalRecords' = 0
  /\ totalPages' = 0
  /\ UNCHANGED <<dbVars, filterVars, dialogVars, successMessage,
                 userAccountId, currentPage, selectedLeads, filteredUserLeads, events>>

\* an error path of loadLeads: setError(msg); return
LoadAbort(i, msg) ==
  /\ error' = msg
  /\ EndRun(i)
  /\ UNCHANGED <<dbVars, filterVars, dialogVars, resultVars, successMessage,
                 userAccountId, currentPage, selectedLeads, filteredUserLeads, events>>

\* await getToken(...) of loadLeads returns
LoadGetToken(i) ==
  /\ UNCHANGED <<settingsVars, sweepLog>>
  /\ tasks[i].pc = "token"
  /\ \E r \in {"ok", "null", "throw"} :
       CASE r = "null" -> LoadAbort(i, AuthFailed)
         [] r = "throw" -> LoadAbort(i, LoadThrew)
         [] OTHER ->
            IF tasks[i].acct = NoAccount
            THEN /\ EndRun(i)
                 /\ UNCHANGED <<dbVars, filterVars, dialogVars, resultVars, error,
                                successMessage, userAccountId, currentPage,
                                selectedLeads, filteredUserLeads, events>>
            ELSE /\ tasks' = [tasks EXCEPT ![i].pc = "userLeads"]
                 /\ UNCHANGED <<dbVars, filterVars, dialogVars, resultVars, isLoading,
                                error, successMessage, userAccountId, currentPage,
                                selectedLeads, filteredUserLeads, events>>

\* await allUserLeadsQuery returns
LoadUserLeads(i) ==
  /\ UNCHANGED <<settingsVars, sweepLog>>
  /\ tasks[i].pc = "userLeads"
  /\ \E r \in {"ok", "error", "throw"} :
       CASE r = "error" -> LoadAbort(i, QueryFailed)
         [] r = "throw" -> LoadAbort(i, LoadThrew)
         [] OTHER ->
            LET t == tasks[i]
                allUserLeadsData == AllUserLeadsQuery(user_leads, t.acct, t.excludedView)
            IN  IF Len(allUserLeadsData) = 0
                THEN /\ totalRecords' = 0
                     /\ totalPages' = 0
                     /\ leads' = <<>>
                     /\ EndRun(i)
                     /\ UNCHANGED <<dbVars, filterVars, dialogVars, error, successMessage,
                                    userAccountId, currentPage, selectedLeads,
                                    filteredUserLeads, events>>
                ELSE /\ tasks' = [tasks EXCEPT ![i].pc = "leadEmails",
                                               ![i].data = allUserLeadsData]
                     /\ UNCHANGED <<dbVars, filterVars, dialogVars, resultVars, isLoading,
                                    error, successMessage, userAccountId, currentPage,
                                    selectedLeads, filteredUserLeads, events>>

\* variant: the run slices and counts with the page and page size on screen
\* when its response arrives, not with those of the render that started it
FilterAndPaginate_CurrentParams(i, emailedLeadIds, leadsWithEmailSet) ==
  LET t == tasks[i]
      filtered == SelectSeq(t.data, LAMBDA ul :
                    KeepUserLead(ul, t.excludedView, t.emailedToo, t.withoutEmails,
                                 emailedLeadIds, leadsWithEmailSet))
      paginatedUserLeads == PageSlice(filtered, currentPage, recordsPerPage)
  IN  /\ filteredUserLeads' = filtered
      /\ totalRecords' = Len(filtered)
      /\ totalPages' = CeilDiv(Len(filtered), recordsPerPage)
      /\ IF Len(paginatedUserLeads) = 0
         THEN /\ leads' = <<>>
              /\ EndRun(i)
         ELSE /\ tasks' = [tasks EXCEPT ![i].pc = "hydrate",
                                        ![i].paged = paginatedUserLeads,
                                        ![i].data = <<>>,
                                        ![i].withEmail = {}]
              /\ UNCHANGED <<leads, isLoading>>
      /\ UNCHANGED <<dbVars, filterVars, dialogVars, error, successMessage,
                     userAccountId, currentPage, selectedLeads, events>>

\* Steps 4 and 5 of loadLeads: filter, count, slice
FilterAndPaginate(i, emailedLeadIds, leadsWithEmailSet) ==
  LET t == tasks[i]
      filtered == SelectSeq(t.data, LAMBDA ul :
                    KeepUserLead(ul, t.excludedView, t.emailedToo, t.withoutEmails,
                                 emailedLeadIds, leadsWithEmailSet))
      paginatedUserLeads == PageSlice(filtered, t.page, t.perPage)
  IN  /\ filteredUserLeads' = filtered
      /\ totalRecords' = Len(filtered)
      /\ totalPages' = CeilDiv(Len(filtered), t.perPage)
      /\ IF Len(paginatedUserLeads) = 0
         THEN /\ leads' = <<>>
              /\ EndRun(i)
         ELSE /\ tasks' = [tasks EXCEPT ![i].pc = "hydrate",
                                        ![i].paged = paginatedUserLeads,
                                        ![i].data = <<>>,
                                        ![i].withEmail = {}]
              /\ UNCHANGED <<leads, isLoading>>
      /\ UNCHANGED <<dbVars, filterVars, dialogVars, error, successMessage,
                     userAccountId, currentPage, selectedLeads, events>>

\* await of the serp_leads_v2 (id, email) query returns
LoadLeadEmails(i) ==
  /\ UNCHANGED <<settingsVars, sweepLog>>
  /\ tasks[i].pc = "leadEmails"
  /\ \E r \in {"ok", "error", "throw"} :
       CASE r = "error" -> LoadAbort(i, QueryFailed)
         [] r = "throw" -> LoadAbort(i, LoadThrew)
         [] OTHER ->
            LET t == tasks[i]
                withEmail == LeadsWithEmailSet(serp_leads_v2, t.data)
            IN  IF ~t.emailedToo /\ ~t.excludedView /\ t.acct # NoAccount
                THEN /\ tasks' = [tasks EXCEPT ![i].pc = "drafts",
                                               ![i].withEmail = withEmail]
                     /\ UNCHANGED <<dbVars, filterVars, dialogVars, resultVars, isLoading,
                                    error, successMessage, userAccountId, currentPage,
                                    selectedLeads, filteredUserLeads, events>>
                ELSE FilterAndPaginate(i, {}, withEmail)

\* await of the email_drafts query returns; its error is not looked at
LoadDrafts(i) ==
  /\ UNCHANGED <<settingsVars, sweepLog>>
  /\ tasks[i].pc = "drafts"
  /\ \E r \in {"ok", "error", "throw"} :
       CASE r = "throw" -> LoadAbort(i, LoadThrew)
         [] r = "error" -> FilterAndPaginate(i, {}, tasks[i].withEmail)
         [] OTHER -> FilterAndPaginate(i, EmailedLeadIds(email_drafts, tasks[i].acct),
                                      tasks[i].withEmail)

Perms(n) == { f \in [1..n -> 1..n] : \A a, b \in 1..n : f[a] = f[b] => a = b }

\* leadsData.map(lead => ({...lead, excluded: excludedMap.get(lead.id)})):
\* the query has no order clause, so the rows come back in any order
MergedLeads(paged) ==
  LET merged == [k \in 1..Len(paged) |->
                   [id |-> paged[k].lead_id, excluded |-> paged[k].excluded]]
      n == Len(paged)
  IN  IF n <= MaxPermLen
      THEN { [k \in 1..n |-> merged[f[k]]] : f \in Perms(n) }
      ELSE { merged, [k \in 1..n |-> merged[n + 1 - k]] }

\* await of the full serp_leads_v2 query returns
LoadHydrate(i) ==
  /\ UNCHANGED <<settingsVars, sweepLog>>
  /\ tasks[i].pc = "hydrate"
  /\ \E r \in {"ok", "error", "throw"} :
       CASE r = "error" -> LoadAbort(i, QueryFailed)
         [] r = "throw" -> LoadAbort(i, LoadThrew)
         [] OTHER ->
            /\ leads' \in MergedLeads(tasks[i].paged)
            /\ EndRun(i)
            /\ UNCHANGED <<dbVars, filterVars, dialogVars, totalRecords, totalPages,
                           error, successMessage, userAccountId, currentPage,
                           selectedLeads, filteredUserLeads, events>>

\* ------------------------------------------------------- effects, gestures
\* strings the dialog can be given as custom categories
CustomInputs ==
  { <<>>, <<"a">>, <<"c", ",", "a">>, <<"a", ",", "a">>, <<"a", ",", " ", "b">> }

\* the page sizes the main specification offers (stand-ins for 25, 50, 100)
ScaledPageSizes == 1..MaxPageSize

\* loadLeads() up to its first await
StartLoads(pages) ==
  /\ isLoading' = TRUE
  /\ error' = ""
  /\ tasks' = tasks \o [k \in 1..Len(pages) |-> NewTask("load", "token", pages[k])]

\* variant: the effect does not clear the selection
FilterEffect_KeepsSelection ==
  IF userAccountId' # NoAccount
  THEN /\ Len(tasks) + (IF currentPage # 1 THEN 2 ELSE 1) <= MaxTasks
       /\ currentPage' = 1
       /\ selectedLeads' = selectedLeads
       /\ StartLoads(IF currentPage # 1 THEN <<currentPage, 1>> ELSE <<currentPage>>)
  ELSE UNCHANGED <<currentPage, selectedLeads, isLoading, error, tasks>>

\* useEffect on [isSignedIn, recordsPerPage, userAccountId, showWithoutEmails,
\* showEmailedLeads, showExcludedLeads], followed, when it changed currentPage,
\* by the useEffect on [currentPage].  loadLeads of the first effect closes
\* over the render in which currentPage still has its old value.
FilterEffect ==
  IF userAccountId' # NoAccount
  THEN /\ Len(tasks) + (IF currentPage # 1 THEN 2 ELSE 1) <= MaxTasks
       /\ currentPage' = 1
       /\ selectedLeads' = {}
       /\ StartLoads(IF currentPage # 1 THEN <<currentPage, 1>> ELSE <<currentPage>>)
  ELSE UNCHANGED <<currentPage, selectedLeads, isLoading, error, tasks>>

\* useEffect on [currentPage] after a change of currentPage alone
PageEffect ==
  IF userAccountId # NoAccount
  THEN /\ Len(tasks) < MaxTasks
       /\ StartLoads(<<currentPage'>>)
  ELSE UNCHANGED <<isLoading, error, tasks>>

Gesture ==
  /\ events < MaxEvents
  /\ events' = events + 1

\* the exclusion dialog is modal: the page behind it takes no input
PageInput == ~excludeDialogOpen /\ ~emailSettingsModalOpen
\* the table, the page-size select and the pager are rendered
TableShown == ~isLoading /\ Len(leads) > 0

\* loadAccountNumber resolves the account (on failure nothing changes)
LoadAccountNumber ==
  /\ UNCHANGED <<settingsVars, sweepLog>>
  /\ userAccountId = NoAccount
  /\ userAccountId' = Me
  /\ UNCHANGED filterVars
  /\ FilterEffect
  /\ UNCHANGED <<dbVars, dialogVars, resultVars, successMessage,
                 filteredUserLeads, events>>

ToggleShowWithoutEmails ==
  /\ UNCHANGED <<settingsVars, sweepLog>>
  /\ PageInput /\ ~showExcludedLeads
  /\ Gesture
  /\ showWithoutEmails' = ~showWithoutEmails
  /\ UNCHANGED <<showEmailedLeads, showExcludedLeads, recordsPerPage, userAccountId>>
  /\ FilterEffect
  /\ UNCHANGED <<dbVars, dialogVars, resultVars, successMessage, filteredUserLeads>>

ToggleShowEmailedLeads ==
  /\ UNCHANGED <<settingsVars, sweepLog>>
  /\ PageInput /\ ~showExcludedLeads
  /\ Gesture
  /\ showEmailedLeads' = ~showEmailedLeads
  /\ UNCHANGED <<showWithoutEmails, showExcludedLeads, recordsPerPage, userAccountId>>
  /\ FilterEffect
  /\ UNCHANGED <<dbVars, dialogVars, resultVars, successMessage, filteredUserLeads>>

ToggleShowExcludedLeads ==
  /\ UNCHANGED <<settingsVars, sweepLog>>
  /\ PageInput
  /\ Gesture
  /\ showExcludedLeads' = ~showExcludedLeads
  /\ UNCHANGED <<showWithoutEmails, showEmailedLeads, recordsPerPage, userAccountId>>
  /\ FilterEffect
  /\ UNCHANGED <<dbVars, dialogVars, resultVars, successMessage, filteredUserLeads>>

SetRecordsPerPage(n) ==
  /\ UNCHANGED <<settingsVars, sweepLog>>
  /\ PageInput /\ TableShown
  /\ n # recordsPerPage
  /\ Gesture
  /\ recordsPerPage' = n
  /\ UNCHANGED <<showWithoutEmails, showEmailedLeads, showExcludedLeads, userAccountId>>
  /\ FilterEffect
  /\ UNCHANGED <<dbVars, dialogVars, resultVars, successMessage, filteredUserLeads>>

\* the Next button: setCurrentPage(p => Math.min(totalPages, p + 1))
NextPage ==
  /\ UNCHANGED <<settingsVars, sweepLog>>
  /\ PageInput /\ TableShown
  /\ currentPage # totalPages
  /\ Gesture
  /\ currentPage' = Min(totalPages, currentPage + 1)
  /\ UNCHANGED <<filterVars, userAccountId>>
  /\ PageEffect
  /\ UNCHANGED <<dbVars, dialogVars, resultVars, successMessage,
                 selectedLeads, filteredUserLeads>>

\* the Previous button: setCurrentPage(p => Math.max(1, p - 1))
PrevPage ==
  /\ UNCHANGED <<settingsVars, sweepLog>>
  /\ PageInput /\ TableShown
  /\ currentPage # 1
  /\ Gesture
  /\ currentPage' = Max(1, currentPage - 1)
  /\ UNCHANGED <<filterVars, userAccountId>>
  /\ PageEffect
  /\ UNCHANGED <<dbVars, dialogVars, resultVars, successMessage,
                 selectedLeads, filteredUserLeads>>

LeadIds(ls) == { ls[k].id : k \in 1..Len(ls) }

toggleLeadSelection(leadId) ==
  /\ UNCHANGED <<settingsVars, sweepLog>>
  /\ PageInput /\ TableShown
  /\ leadId \in LeadIds(leads)
  /\ Gesture
  /\ selectedLeads' = IF leadId \in selectedLeads THEN selectedLeads \ {leadId}
                      ELSE selectedLeads \cup {leadId}
  /\ UNCHANGED <<dbVars, filterVars, dialogVars, resultVars, isLoading, error,
                 successMessage, userAccountId, currentPage, tasks,
                 filteredUserLeads>>

toggleSelectAll ==
  /\ UNCHANGED <<settingsVars, sweepLog>>
  /\ PageInput /\ TableShown
  /\ Gesture
  /\ selectedLeads' = IF Cardinality(selectedLeads) = Len(leads) THEN {}
                      ELSE LeadIds(leads)
  /\ UNCHANGED <<dbVars, filterVars, dialogVars, resultVars, isLoading, error,
                 successMessage, userAccountId, currentPage, tasks,
                 filteredUserLeads>>

\* setTimeout(() => setSuccessMessage(''), 3000) fires
SuccessTimeout ==
  /\ UNCHANGED <<settingsVars, sweepLog>>
  /\ successMessage # ""
  /\ successMessage' = ""
  /\ UNCHANGED <<dbVars, filterVars, dialogVars, resultVars, isLoading, error,
                 userAccountId, currentPage, selectedLeads, tasks,
                 filteredUserLeads, events>>

\* ------------------------------------------------------ exclusion workflow
CharCode(c) ==
  CASE c = " " -> 32 [] c = "," -> 44 [] c = "_" -> 95
    [] c = "a" -> 97 [] c = "b" -> 98 [] c = "c" -> 99 [] OTHER -> 0

RECURSIVE StrLess(_, _)
\* a < b for strings (code unit order)
StrLess(a, b) ==
  IF Len(b) = 0 THEN FALSE
  ELSE IF Len(a) = 0 THEN TRUE
  ELSE IF a[1] # b[1] THEN CharCode(a[1]) < CharCode(b[1])
  ELSE StrLess(Tail(a), Tail(b))

RECURSIVE SortStrings(_)
\* Array.from(set).sort()
SortStrings(S) ==
  IF S = {} THEN <<>>
  ELSE LET m == CHOOSE x \in S : \A y \in S \ {x} : StrLess(x, y)
       IN  <<m>> \o SortStrings(S \ {m})

\* lead.categories.split(' ').filter(cat => cat.trim()).map(cat => cat.trim())
LeadCategoryTokens(categories) ==
  LET toks == FilterNonBlank(Split(categories, " "))
  IN  { Trim(toks[k]) : k \in 1..Len(toks) }

\* the categories of the displayed leads that are selected, sorted
AvailableCategoriesOf(ls, selected) ==
  SortStrings(UNION { LeadCategoryTokens(serp_leads_v2[ls[k].id].categories) :
                        k \in { j \in 1..Len(ls) :
                                  /\ ls[j].id \in selected
                                  /\ Truthy(serp_leads_v2[ls[j].id].categories) } })

handleRemoveLeads ==
  /\ UNCHANGED <<settingsVars, sweepLog>>
  /\ PageInput /\ ~showExcludedLeads
  /\ selectedLeads # {} /\ ~isLoading
  /\ Gesture
  /\ availableCategories' = AvailableCategoriesOf(leads, selectedLeads)
  /\ selectedCategories' = <<>>
  /\ customCategory' = <<>>
  /\ customCategoryError' = FALSE
  /\ excludeDialogOpen' = TRUE
  /\ UNCHANGED emailSettingsModalOpen
  /\ UNCHANGED <<dbVars, filterVars, resultVars, isLoading, error, successMessage,
                 userAccountId, currentPage, selectedLeads, tasks,
                 filteredUserLeads>>

\* selectedCategories is a Set: it keeps the order of insertion
toggleCategorySelection(category) ==
  /\ UNCHANGED <<settingsVars, sweepLog>>
  /\ excludeDialogOpen
  /\ category \in Range(availableCategories)
  /\ Gesture
  /\ selectedCategories' =
       IF category \in Range(selectedCategories)
       THEN SelectSeq(selectedCategories, LAMBDA c : c # category)
       ELSE Append(selectedCategories, category)
  /\ UNCHANGED <<dbVars, filterVars, resultVars, isLoading, error, successMessage,
                 userAccountId, currentPage, selectedLeads, tasks,
                 filteredUserLeads, excludeDialogOpen, emailSettingsModalOpen,
                 availableCategories,
                 customCategory, customCategoryError>>

validateCustomCategory(value) ==
  /\ UNCHANGED <<settingsVars, sweepLog>>
  /\ excludeDialogOpen
  /\ value # customCategory
  /\ Gesture
  /\ customCategory' = value
  /\ customCategoryError' =
       IF ~Truthy(Trim(value)) THEN FALSE
       ELSE IF CategoryPattern(value) THEN FALSE
       ELSE TRUE
  /\ UNCHANGED <<dbVars, filterVars, resultVars, isLoading, error, successMessage,
                 userAccountId, currentPage, selectedLeads, tasks,
                 filteredUserLeads, excludeDialogOpen, emailSettingsModalOpen,
                 availableCategories,
                 selectedCategories>>

\* Cancel, Escape or a click outside: onOpenChange(false)
CloseExcludeDialog ==
  /\ UNCHANGED <<settingsVars, sweepLog>>
  /\ excludeDialogOpen
  /\ Gesture
  /\ excludeDialogOpen' = FALSE
  /\ UNCHANGED emailSettingsModalOpen
  /\ UNCHANGED <<dbVars, filterVars, resultVars, isLoading, error, successMessage,
                 userAccountId, currentPage, selectedLeads, tasks,
                 filteredUserLeads, availableCategories, selectedCategories,
                 customCategory, customCategoryError>>

\* the Confirm Removal button
confirmExcludeLeads ==
  /\ UNCHANGED <<settingsVars, sweepLog>>
  /\ excludeDialogOpen
  /\ ~isLoading /\ ~customCategoryError
  /\ clock <= MaxClock
  /\ Len(tasks) < MaxTasks
  /\ Gesture
  /\ UNCHANGED <<dbVars, filterVars, dialogVars, resultVars, error, successMessage,
                 userAccountId, currentPage, selectedLeads, filteredUserLeads>>
  /\ IF userAccountId = NoAccount
        \/ (Truthy(Trim(customCategory)) /\ ~CategoryPattern(customCategory))
     THEN UNCHANGED <<isLoading, tasks>>
     ELSE /\ isLoading' = TRUE
          /\ tasks' = Append(tasks,
               [NewTask("exclude", "xToken", currentPage) EXCEPT
                  !.sel = selectedLeads, !.cats = selectedCategories,
                  !.custom = customCategory])

\* variant: the finally of the operation does not reset isLoading
OpAbort_KeepsLoading(i) ==
  /\ tasks' = RemoveAt(tasks, i)
  /\ UNCHANGED <<dbVars, filterVars, dialogVars, resultVars, isLoading, error,
                 successMessage, userAccountId, currentPage, selectedLeads,
                 filteredUserLeads, events>>

\* alert(...) and the finally block of an operation
OpAbort(i) ==
  /\ EndRun(i)
  /\ UNCHANGED <<dbVars, filterVars, dialogVars, resultVars, error, successMessage,
                 userAccountId, currentPage, selectedLeads, filteredUserLeads, events>>

\* await loadLeads() inside an operation: loadLeads up to its first await,
\* in the closure of the render the operation was started from
ContinueWithLoad(i) ==
  /\ isLoading' = TRUE
  /\ error' = ""
  /\ tasks' = [tasks EXCEPT ![i] = [@ EXCEPT !.pc = "token",
                                      !.cats = <<>>, !.custom = <<>>,
                                      !.stamp = 0, !.newCat = <<>>]]

ExcludeSuccess(i) ==
  /\ successMessage' = "Successfully excluded"
  /\ selectedLeads' = {}
  /\ excludeDialogOpen' = FALSE
  /\ UNCHANGED emailSettingsModalOpen
  /\ selectedCategories' = <<>>
  /\ customCategory' = <<>>
  /\ customCategoryError' = FALSE
  /\ ContinueWithLoad(i)
  /\ UNCHANGED <<filterVars, resultVars, userAccountId, currentPage,
                 availableCategories, filteredUserLeads, events>>

ExcludeToken(i) ==
  /\ UNCHANGED <<settingsVars, sweepLog>>
  /\ tasks[i].pc = "xToken"
  /\ \E r \in {"ok", "null", "throw"} :
       IF r = "ok"
       THEN /\ tasks' = [tasks EXCEPT ![i].pc = "xUpdate", ![i].stamp = clock]
            /\ clock' = clock + 1
            /\ UNCHANGED <<user_leads, serp_leads_v2, email_drafts, serp_exc_cat,
                           filterVars, dialogVars, resultVars, isLoading, error,
                           successMessage, userAccountId, currentPage, selectedLeads,
                           filteredUserLeads, events>>
       ELSE OpAbort(i)

\* variant: the custom string is split without the blank checks
CategoriesToAdd_RawSplit(cats, custom) == cats \o Split(custom, ",")

\* categoriesToAdd of confirmExcludeLeads
CategoriesToAdd(cats, custom) ==
  cats \o (IF Truthy(Trim(custom)) THEN FilterNonBlank(Split(custom, ",")) ELSE <<>>)

\* newSerpExcCat of confirmExcludeLeads
MergeCategories(current, categoriesToAdd) ==
  LET existingCategories == FilterNonBlank(Split(current, ","))
      existingSet == Range(existingCategories)
      newCategories == SelectSeq(categoriesToAdd, LAMBDA cat : cat \notin existingSet)
      allCategories == IF Len(existingCategories) > 0
                       THEN existingCategories \o newCategories
                       ELSE newCategories
  IN  Join(allCategories, ",")

\* variant: the update is not restricted to the account
UpdateExcluded_AnyAccount(ul, acct, leadIds, v) ==
  [a \in DOMAIN ul |->
     IF ul[a].lead_id \in leadIds
     THEN [ul[a] EXCEPT !.excluded = v]
     ELSE ul[a]]

\* variant: writing null to a row that is already null stamps it instead
UpdateExcluded_Flip(ul, acct, leadIds, v) ==
  [a \in DOMAIN ul |->
     IF ul[a].user_id = acct /\ ul[a].lead_id \in leadIds
     THEN [ul[a] EXCEPT !.excluded = IF v = NotExcluded /\ @ = NotExcluded THEN 1 ELSE v]
     ELSE ul[a]]

\* .update({excluded: v}).eq('user_id', acct).in('lead_id', leadIds)
UpdateExcluded(ul, acct, leadIds, v) ==
  [a \in DOMAIN ul |->
     IF ul[a].user_id = acct /\ ul[a].lead_id \in leadIds
     THEN [ul[a] EXCEPT !.excluded = v]
     ELSE ul[a]]

\* await of the user_leads update of confirmExcludeLeads returns
ExcludeUpdate(i) ==
  /\ UNCHANGED <<settingsVars, sweepLog>>
  /\ tasks[i].pc = "xUpdate"
  /\ \E r \in {"ok", "error", "throw"} :
       IF r = "ok"
       THEN LET t == tasks[i]
            IN  /\ user_leads' = UpdateExcluded(user_leads, t.acct, t.sel, t.stamp)
                /\ UNCHANGED <<serp_leads_v2, email_drafts, serp_exc_cat, clock>>
                /\ IF Len(CategoriesToAdd(t.cats, t.custom)) > 0
                   THEN /\ tasks' = [tasks EXCEPT ![i].pc = "xFetchCat"]
                        /\ UNCHANGED <<filterVars, dialogVars, resultVars, isLoading,
                                       error, successMessage, userAccountId,
                                       currentPage, selectedLeads, filteredUserLeads,
                                       events>>
                   ELSE ExcludeSuccess(i)
       ELSE OpAbort(i)

\* await of the serp_exc_cat fetch returns; its error is only logged
ExcludeFetchCat(i) ==
  /\ UNCHANGED <<settingsVars, sweepLog>>
  /\ tasks[i].pc = "xFetchCat"
  /\ \E r \in {"ok", "error", "throw"} :
       CASE r = "ok" ->
              LET t == tasks[i]
              IN  /\ tasks' = [tasks EXCEPT ![i].pc = "xUpdateCat",
                        ![i].newCat = MergeCategories(OrEmpty(serp_exc_cat[t.acct]),
                                         CategoriesToAdd(t.cats, t.custom))]
                  /\ UNCHANGED <<dbVars, filterVars, dialogVars, resultVars, isLoading,
                                 error, successMessage, userAccountId, currentPage,
                                 selectedLeads, filteredUserLeads, events>>
         [] r = "error" -> ExcludeSuccess(i) /\ UNCHANGED dbVars
         [] OTHER -> OpAbort(i)

\* await of the serp_exc_cat update returns; its error is only logged
ExcludeUpdateCat(i) ==
  /\ UNCHANGED <<settingsVars, sweepLog>>
  /\ tasks[i].pc = "xUpdateCat"
  /\ \E r \in {"ok", "error", "throw"} :
       CASE r = "ok" ->
              /\ serp_exc_cat' = [serp_exc_cat EXCEPT ![tasks[i].acct] = tasks[i].newCat]
              /\ UNCHANGED <<user_leads, serp_leads_v2, email_drafts, clock>>
              /\ ExcludeSuccess(i)
         [] r = "error" -> ExcludeSuccess(i) /\ UNCHANGED dbVars
         [] OTHER -> OpAbort(i)

\* the Restore Leads button
handleRestoreLeads ==
  /\ UNCHANGED <<settingsVars, sweepLog>>
  /\ PageInput /\ showExcludedLeads
  /\ selectedLeads # {} /\ ~isLoading
  /\ Len(tasks) < MaxTasks
  /\ Gesture
  /\ UNCHANGED <<dbVars, filterVars, dialogVars, resultVars, error, successMessage,
                 userAccountId, currentPage, selectedLeads, filteredUserLeads>>
  /\ IF Cardinality(selectedLeads) = 0 \/ userAccountId = NoAccount
     THEN UNCHANGED <<isLoading, tasks>>
     ELSE /\ isLoading' = TRUE
          /\ tasks' = Append(tasks,
               [NewTask("restore", "rToken", currentPage) EXCEPT !.sel = selectedLeads])

RestoreToken(i) ==
  /\ UNCHANGED <<settingsVars, sweepLog>>
  /\ tasks[i].pc = "rToken"
  /\ \E r \in {"ok", "null", "throw"} :
       IF r = "ok"
       THEN /\ tasks' = [tasks EXCEPT ![i].pc = "rUpdate"]
            /\ UNCHANGED <<dbVars, filterVars, dialogVars, resultVars, isLoading, error,
                           successMessage, userAccountId, currentPage, selectedLeads,
                           filteredUserLeads, events>>
       ELSE OpAbort(i)

\* variant: restoring also empties the account's exclusion set
RestoreWrite_ClearsCategories(i) ==
  /\ user_leads' = UpdateExcluded(user_leads, tasks[i].acct, tasks[i].sel, NotExcluded)
  /\ serp_exc_cat' = [serp_exc_cat EXCEPT ![tasks[i].acct] = <<>>]
  /\ UNCHANGED <<serp_leads_v2, email_drafts, clock>>

\* .update({ excluded: null }).eq('user_id', userAccountId).in('lead_id', leadIds)
RestoreWrite(i) ==
  /\ user_leads' = UpdateExcluded(user_leads, tasks[i].acct, tasks[i].sel, NotExcluded)
  /\ UNCHANGED <<serp_leads_v2, email_drafts, serp_exc_cat, clock>>

\* await of the user_leads update of handleRestoreLeads returns
RestoreUpdate(i) ==
  /\ UNCHANGED <<settingsVars, sweepLog>>
  /\ tasks[i].pc = "rUpdate"
  /\ \E r \in {"ok", "error", "throw"} :
       IF r = "ok"
       THEN /\ RestoreWrite(i)
            /\ successMessage' = "Successfully restored"
            /\ selectedLeads' = {}
            /\ ContinueWithLoad(i)
            /\ UNCHANGED <<filterVars, dialogVars, resultVars, userAccountId,
                           currentPage, filteredUserLeads, events>>
       ELSE OpAbort(i)

\* ------------------------------------------------------- email generation
exclusionVars == <<excludeDialogOpen, availableCategories, selectedCategories,
                   customCategory, customCategoryError>>

\* steps of EmailSettingsModal.handleContinue up to its call of onContinue
ModalPcs == {"mToken", "mUpdate"}

\* steps of triggerEmailGeneration before its await loadLeads()
GeneratePcs == {"gToken", "gAccount", "gClerk", "gFetch", "gErrText", "gBody", "gDelay"}

\* isSaving of EmailSettingsModal
ModalSaving == \E i \in 1..Len(tasks) : tasks[i].pc \in ModalPcs

\* the Verify Emails button
handleGenerateEmails ==
  /\ UNCHANGED <<settingsVars, sweepLog>>
  /\ PageInput /\ ~showExcludedLeads
  /\ selectedLeads # {} /\ ~isLoading
  /\ Gesture
  /\ emailSettingsModalOpen' =
       ~(Cardinality(selectedLeads) = 0 \/ userAccountId = NoAccount)
  /\ UNCHANGED <<dbVars, filterVars, exclusionVars, resultVars, isLoading, error,
                 successMessage, userAccountId, currentPage, selectedLeads, tasks,
                 filteredUserLeads>>

\* onOpenChange(false) of the modal: its Cancel button (handleCancel) or the
\* dismissal of the Dialog
CloseEmailSettings ==
  /\ UNCHANGED <<settingsVars, sweepLog>>
  /\ emailSettingsModalOpen
  /\ Gesture
  /\ emailSettingsModalOpen' = FALSE
  /\ UNCHANGED <<dbVars, filterVars, exclusionVars, resultVars, isLoading, error,
                 successMessage, userAccountId, currentPage, selectedLeads, tasks,
                 filteredUserLeads>>

\* the Generate Emails button of the modal: handleContinue up to the first
\* await of saveEmailSettings.  onContinue is triggerEmailGeneration of the
\* render the modal was last rendered from.
EmailSettingsContinue ==
  /\ UNCHANGED <<settingsVars, sweepLog>>
  /\ emailSettingsModalOpen
  /\ ~ModalSaving
  /\ Len(tasks) < MaxTasks
  /\ Gesture
  /\ UNCHANGED <<dbVars, filterVars, dialogVars, resultVars, isLoading, error,
                 successMessage, userAccountId, currentPage, selectedLeads,
                 filteredUserLeads>>
  /\ tasks' = Append(tasks,
       [NewTask("generate", "mToken", currentPage) EXCEPT !.sel = selectedLeads])

\* saveEmailSettings returns false: handleContinue does nothing more
ModalSaveFails(i) ==
  /\ tasks' = RemoveAt(tasks, i)
  /\ UNCHANGED <<dbVars, filterVars, dialogVars, resultVars, isLoading, error,
                 successMessage, userAccountId, currentPage, selectedLeads,
                 filteredUserLeads, events>>

\* await getToken(...) of saveEmailSettings returns
ModalSaveToken(i) ==
  /\ UNCHANGED <<settingsVars, sweepLog>>
  /\ tasks[i].pc = "mToken"
  /\ \E r \in {"ok", "null", "throw"} :
       IF r = "ok"
       THEN /\ tasks' = [tasks EXCEPT ![i].pc = "mUpdate"]
            /\ UNCHANGED <<dbVars, filterVars, dialogVars, resultVars, isLoading, error,
                           successMessage, userAccountId, currentPage, selectedLeads,
                           filteredUserLeads, events>>
       ELSE ModalSaveFails(i)

\* await of the email settings update returns (the email_* columns are not
\* part of the store here); when it succeeded, onContinue() runs
\* triggerEmailGeneration up to its first await and onOpenChange(false)
\* closes the modal
ModalSaveUpdate(i) ==
  /\ UNCHANGED <<settingsVars, sweepLog>>
  /\ tasks[i].pc = "mUpdate"
  /\ \E r \in {"ok", "error", "throw"} :
       IF r = "ok"
       THEN /\ emailSettingsModalOpen' = FALSE
            /\ IF tasks[i].acct = NoAccount
               THEN /\ tasks' = RemoveAt(tasks, i)
                    /\ UNCHANGED isLoading
               ELSE /\ isLoading' = TRUE
                    /\ tasks' = [tasks EXCEPT ![i].pc = "gToken"]
            /\ UNCHANGED <<dbVars, filterVars, exclusionVars, resultVars, error,
                           successMessage, userAccountId, currentPage, selectedLeads,
                           filteredUserLeads, events>>
       ELSE ModalSaveFails(i)

\* an await of triggerEmailGeneration returns and the run goes on to pc
GenerateGoesOn(i, pc) ==
  /\ tasks' = [tasks EXCEPT ![i].pc = pc]
  /\ UNCHANGED <<dbVars, filterVars, dialogVars, resultVars, isLoading, error,
                 successMessage, userAccountId, currentPage, selectedLeads,
                 filteredUserLeads, events>>

\* await getToken({ template: 'supabase' }) of triggerEmailGeneration returns
GenerateToken(i) ==
  /\ UNCHANGED <<settingsVars, sweepLog>>
  /\ tasks[i].pc = "gToken"
  /\ \E r \in {"ok", "null", "throw"} :
       IF r = "ok" THEN GenerateGoesOn(i, "gAccount") ELSE OpAbort(i)

\* await of the account_number query returns; only its data is looked at
GenerateAccount(i) ==
  /\ UNCHANGED <<settingsVars, sweepLog>>
  /\ tasks[i].pc = "gAccount"
  /\ \E r \in {"ok", "error", "throw"} :
       IF r = "ok" THEN GenerateGoesOn(i, "gClerk") ELSE OpAbort(i)

\* await getToken() for the Clerk session token returns
GenerateClerkToken(i) ==
  /\ UNCHANGED <<settingsVars, sweepLog>>
  /\ tasks[i].pc = "gClerk"
  /\ \E r \in {"ok", "null", "throw"} :
       IF r = "ok" THEN GenerateGoesOn(i, "gFetch") ELSE OpAbort(i)

\* drafts the webhook's workflow may have written for the leads it was sent
DraftsFor(acct, leadIds) == { [user_id |-> acct, lead_id |-> l] : l \in leadIds }

\* await fetch(webhookUrl) returns.  A 2xx answer is possible whether or not
\* the workflow behind the webhook has stored its drafts yet.
GenerateFetch(i) ==
  /\ UNCHANGED <<settingsVars, sweepLog>>
  /\ tasks[i].pc = "gFetch"
  /\ \E r \in {"2xx", "status", "throw"} :
       CASE r = "2xx" ->
              /\ \E made \in {{}, DraftsFor(tasks[i].acct, tasks[i].sel)} :
                   email_drafts' = email_drafts \cup made
              /\ tasks' = [tasks EXCEPT ![i].pc = "gBody"]
              /\ UNCHANGED <<user_leads, serp_leads_v2, serp_exc_cat, clock,
                             filterVars, dialogVars, resultVars, isLoading, error,
                             successMessage, userAccountId, currentPage,
                             selectedLeads, filteredUserLeads, events>>
         [] r = "status" -> GenerateGoesOn(i, "gErrText")
         [] OTHER -> OpAbort(i)

\* variant: a non-2xx answer also clears the selection
GenerateErrorText_ClearsSelection(i) ==
  /\ UNCHANGED <<settingsVars, sweepLog>>
  /\ tasks[i].pc = "gErrText"
  /\ selectedLeads' = {}
  /\ EndRun(i)
  /\ UNCHANGED <<dbVars, filterVars, dialogVars, resultVars, error, successMessage,
                 userAccountId, currentPage, filteredUserLeads, events>>

\* await response.text() of a non-2xx answer returns or throws: either way
\* the run throws
GenerateErrorText(i) ==
  /\ UNCHANGED <<settingsVars, sweepLog>>
  /\ tasks[i].pc = "gErrText"
  /\ OpAbort(i)

\* await response.json() or response.text() of a 2xx answer returns
GenerateBody(i) ==
  /\ UNCHANGED <<settingsVars, sweepLog>>
  /\ tasks[i].pc = "gBody"
  /\ \E r \in {"ok", "throw"} :
       IF r = "ok"
       THEN /\ successMessage' = "Successfully generated"
            /\ selectedLeads' = {}
            /\ tasks' = [tasks EXCEPT ![i].pc = "gDelay"]
            /\ UNCHANGED <<dbVars, filterVars, dialogVars, resultVars, isLoading, error,
                           userAccountId, currentPage, filteredUserLeads, events>>
       ELSE OpAbort(i)

\* the two seconds of await new Promise(resolve => setTimeout(resolve, 2000))
\* are over: await loadLeads()
GenerateDelay(i) ==
  /\ UNCHANGED <<settingsVars, sweepLog>>
  /\ tasks[i].pc = "gDelay"
  /\ ContinueWithLoad(i)
  /\ UNCHANGED <<dbVars, filterVars, dialogVars, resultVars, successMessage,
                 userAccountId, currentPage, selectedLeads, filteredUserLeads, events>>

\* ========================================================= SerpSettingsPage
\* [a-zA-Z_]
IsLetterOrUnderscore(c) == c \in {"a", "b", "c", "A", "_"}

\* [0-9,] of the location textarea
IsDigitOrComma(c) == c \in {"1", "2", "9", ","}

\* val.replace(/\s/g, '')
StripSpaces(val) == SelectSeq(val, LAMBDA c : ~IsSpace(c))

\* value.split(',').map(v => v.trim()).filter(v => v.length > 0)
TrimmedItems(value) ==
  LET parts == Split(value, ",")
  IN  SelectSeq([k \in 1..Len(parts) |-> Trim(parts[k])], LAMBDA val : Len(val) > 0)

\* variant: white space inside a value is kept whatever the field
cleanCommaSeparatedValues_KeepSpaces(value, allowSpaces) ==
  IF ~Truthy(value) THEN <<>> ELSE Join(TrimmedItems(value), ",")

cleanCommaSeparatedValues(value, allowSpaces) ==
  IF ~Truthy(value) THEN <<>>
  ELSE LET values == TrimmedItems(value)
       IN  IF ~allowSpaces
           THEN Join([k \in 1..Len(values) |-> StripSpaces(values[k])], ",")
           ELSE Join(values, ",")

\* /^[a-zA-Z_]+$/.test(item)
LettersAndUnderscores(item) ==
  Len(item) > 0 /\ \A k \in 1..Len(item) : IsLetterOrUnderscore(item[k])

\* the list validateCategoryField hands to setInvalid; the effect that calls
\* it sets the empty list for an empty field
validateCategoryField(value) ==
  IF ~Truthy(Trim(value)) THEN <<>>
  ELSE SelectSeq(TrimmedItems(value), LAMBDA item : ~LettersAndUnderscores(item))

\* location_code values of google_locations, as strings
GoogleLocations == { <<"1">>, <<"2">> }

\* codes.filter(code => !validCodes.has(code))
InvalidCodes(codes) == SelectSeq(codes, LAMBDA code : code \notin GoogleLocations)

\* e.target.value.replace(/[^0-9,]/g, '')
FilterDigitsAndCommas(raw) == SelectSeq(raw, IsDigitOrComma)

\* what the settings page never touches: the state of the leads page
\* (serp_exc_cat and the gesture count apart) and the responses of the edge
\* function
leadsVars == <<user_leads, serp_leads_v2, email_drafts, clock, filterVars, dialogVars,
               resultVars, isLoading, error, successMessage, userAccountId,
               currentPage, selectedLeads, tasks, filteredUserLeads, sweepLog>>

SerpAuthFailed == "Authentication failed. Please sign in again."
SaveFailed == "Failed to save settings. Changes may be lost."
SaveThrew == "Failed to save settings. Please check your connection."
SavedAutomatically == "Settings saved automatically"
FixValidationErrors == "Please fix validation errors before starting search."
ProvideBoth == "Please provide both keywords and location codes."
UpdateBeforeSearchFailed == "Failed to update SERP settings before starting search."
NoAccountNumber == "Unable to get account number for search."
NoClerkToken == "Failed to get authentication token."
SearchThrew == "Failed to start search. Please try again."
SearchStarted == "Search started successfully!"
AccountNotFound == "User account not found. Please contact support to set up your account."
AccountCheckFailed == "Database error: message"
AccountThrew == "Failed to connect to database. Please check your connection."

\* the three invalid-item lists are empty
NoInvalidItems(locs, cats, excs) == Len(locs) = 0 /\ Len(cats) = 0 /\ Len(excs) = 0

\* variant: the autosave effect does not wait for the settings to be loaded
AutoSaveArmed_NotLoaded(loaded, validating, locs, cats, excs) ==
  ~validating /\ NoInvalidItems(locs, cats, excs)

\* variant: the autosave effect ignores the invalid-item lists
AutoSaveArmed_IgnoresInvalid(loaded, validating, locs, cats, excs) ==
  loaded /\ ~validating

\* the autosave effect reaches its setTimeout
AutoSaveArmed(loaded, validating, locs, cats, excs) ==
  loaded /\ ~validating /\ NoInvalidItems(locs, cats, excs)

\* the fields autoSaveSerpSettings of the new render closes over
RenderedFields ==
  [keywords |-> serpKeywords', category |-> serpCategory',
   excludedCategory |-> serpExcludedCategory', locations |-> serpLocations',
   states |-> serpStates']

\* the autosave effect reaches its setTimeout in the new render
ArmedAfterRender ==
  /\ serpMounted
  /\ AutoSaveArmed(serpDataLoaded', isValidatingCodes', invalidLocationCodes',
                   invalidCategoryItems', invalidExcludedCategoryItems')

\* variant: the effect returns no cleanup, so the timeout it set earlier
\* stays pending
AutoSaveEffect_NoCleanup ==
  autoSaveTimers' =
    IF <<serpFields, serpDataLoaded, serpInvalid, isValidatingCodes>>'
         # <<serpFields, serpDataLoaded, serpInvalid, isValidatingCodes>>
    THEN IF ArmedAfterRender THEN Append(autoSaveTimers, RenderedFields)
                             ELSE autoSaveTimers
    ELSE autoSaveTimers

\* the autosave effect after a render: it runs again when one of its
\* dependencies has changed, clears its timeout (the cleanup it returned)
\* and may set a new one
AutoSaveEffect ==
  autoSaveTimers' =
    IF <<serpFields, serpDataLoaded, serpInvalid, isValidatingCodes>>'
         # <<serpFields, serpDataLoaded, serpInvalid, isValidatingCodes>>
    THEN IF ArmedAfterRender THEN <<RenderedFields>> ELSE <<>>
    ELSE autoSaveTimers

\* the effects on [serpCategory] and on [serpExcludedCategory]
CategoryEffects ==
  /\ invalidCategoryItems' =
       IF serpCategory' = serpCategory THEN invalidCategoryItems
       ELSE validateCategoryField(serpCategory')
  /\ invalidExcludedCategoryItems' =
       IF serpExcludedCategory' = serpExcludedCategory THEN invalidExcludedCategoryItems
       ELSE validateCategoryField(serpExcludedCategory')

\* the effect on [serpLocations, isSignedIn]
LocationEffect ==
  IF serpLocations' = serpLocations
  THEN UNCHANGED <<invalidLocationCodes, validateTimer>>
  ELSE IF ~Truthy(serpLocations')
  THEN invalidLocationCodes' = <<>> /\ validateTimer' = FALSE
  ELSE invalidLocationCodes' = invalidLocationCodes /\ validateTimer' = serpMounted

\* a user gesture on the settings page
SerpGesture ==
  /\ serpMounted
  /\ events < MaxSerpEvents
  /\ events' = events + 1

\* a field setter followed by the effects of the render
FieldChanged ==
  /\ SerpGesture
  /\ ~searchPreviewModalOpen
  /\ CategoryEffects
  /\ LocationEffect
  /\ UNCHANGED <<serpDataLoaded, isValidatingCodes>>
  /\ AutoSaveEffect
  /\ UNCHANGED <<leadsVars, serpMounted,
                 serp_exc_cat, user_accounts, serpError, serpMessage,
                 serpIsLoading, accountNumber, isSaving, searchPreviewModalOpen,
                 serpRuns>>

KeywordInputs == { <<>>, <<" ", "a", " ", "b", ",", " ", ",", "c", " ">> }
CategoryInputs == { <<>>, <<"a", ",", " ", "b">>, <<"a", "1">> }
ExcludedCategoryInputs == { <<>>, <<"a", ",", "a">>, <<"a", " ", "b">> }
LocationInputs == { <<>>, <<"1", ",", "9">>, <<"1", " ", ",", "2", "x">> }
StateInputs == { <<>>, <<" ", "a", " ", "a", " ">> }

setSerpKeywords(v) ==
  /\ v # serpKeywords
  /\ serpKeywords' = v
  /\ UNCHANGED <<serpCategory, serpExcludedCategory, serpLocations, serpStates>>
  /\ FieldChanged

setSerpCategory(v) ==
  /\ v # serpCategory
  /\ serpCategory' = v
  /\ UNCHANGED <<serpKeywords, serpExcludedCategory, serpLocations, serpStates>>
  /\ FieldChanged

setSerpExcludedCategory(v) ==
  /\ v # serpExcludedCategory
  /\ serpExcludedCategory' = v
  /\ UNCHANGED <<serpKeywords, serpCategory, serpLocations, serpStates>>
  /\ FieldChanged

\* onChange of the location textarea
setSerpLocations(raw) ==
  /\ FilterDigitsAndCommas(raw) # serpLocations
  /\ serpLocations' = FilterDigitsAndCommas(raw)
  /\ UNCHANGED <<serpKeywords, serpCategory, serpExcludedCategory, serpStates>>
  /\ FieldChanged

setSerpStates(v) ==
  /\ v # serpStates
  /\ serpStates' = v
  /\ UNCHANGED <<serpKeywords, serpCategory, serpExcludedCategory, serpLocations>>
  /\ FieldChanged

\* an async function of the page is called: its closure holds the fields and
\* the account number of the current render
NewRun(op, pc) ==
  [op |-> op, pc |-> pc, keywords |-> serpKeywords, category |-> serpCategory,
   excludedCategory |-> serpExcludedCategory, locations |-> serpLocations,
   states |-> serpStates, accountNumber |-> accountNumber]

\* nothing of the settings form changes
FormUnchanged ==
  UNCHANGED <<serpFields, serpDataLoaded, serpInvalid, isValidatingCodes,
              autoSaveTimers, validateTimer>>

\* loadAccountNumber: await getToken returns
LoadAccountToken(i) ==
  /\ serpRuns[i].pc = "aToken"
  /\ \E r \in {"ok", "null", "throw"} :
       /\ serpRuns' = IF r = "ok" THEN [serpRuns EXCEPT ![i].pc = "aQuery"]
                      ELSE RemoveAt(serpRuns, i)
       /\ serpError' = CASE r = "ok" -> serpError
                         [] r = "null" -> SerpAuthFailed
                         [] OTHER -> AccountThrew
  /\ FormUnchanged
  /\ UNCHANGED <<leadsVars, serpMounted,
                 events, serp_exc_cat, user_accounts, serpMessage,
                 serpIsLoading, accountNumber, isSaving, searchPreviewModalOpen>>

\* loadAccountNumber: await of the user_accounts query by clerk_id returns
LoadAccountQuery(i) ==
  /\ serpRuns[i].pc = "aQuery"
  /\ \E r \in {"ok", "error", "none", "throw"} :
       /\ serpRuns' = IF r = "ok" THEN [serpRuns EXCEPT ![i].pc = "sToken"]
                      ELSE RemoveAt(serpRuns, i)
       /\ accountNumber' = IF r = "ok" THEN Me ELSE accountNumber
       /\ serpError' = CASE r = "ok" -> serpError
                         [] r = "error" -> AccountCheckFailed
                         [] r = "none" -> AccountNotFound
                         [] OTHER -> AccountThrew
  /\ FormUnchanged
  /\ UNCHANGED <<leadsVars, serpMounted,
                 events, serp_exc_cat, user_accounts, serpMessage,
                 serpIsLoading, isSaving, searchPreviewModalOpen>>

\* loadSerpSettings: await getToken returns; a failure is only logged
LoadSettingsToken(i) ==
  /\ serpRuns[i].pc = "sToken"
  /\ \E r \in {"ok", "null", "throw"} :
       serpRuns' = IF r = "ok" THEN [serpRuns EXCEPT ![i].pc = "sQuery"]
                   ELSE RemoveAt(serpRuns, i)
  /\ FormUnchanged
  /\ UNCHANGED <<leadsVars, serpMounted,
                 events, serp_exc_cat, user_accounts, serpError, serpMessage,
                 serpIsLoading, accountNumber, isSaving, searchPreviewModalOpen>>

\* loadSerpSettings: await of the settings query returns
LoadSettingsQuery(i) ==
  /\ serpRuns[i].pc = "sQuery"
  /\ serpRuns' = RemoveAt(serpRuns, i)
  /\ \E r \in {"ok", "error", "none", "throw"} :
       IF r = "ok"
       THEN /\ serpKeywords' = OrEmpty(user_accounts.serp_keywords)
            /\ serpCategory' = OrEmpty(user_accounts.serp_cat)
            /\ serpExcludedCategory' = OrEmpty(serp_exc_cat[Me])
            /\ serpLocations' = OrEmpty(user_accounts.serp_locations)
            /\ serpStates' = OrEmpty(user_accounts.serp_states)
            /\ serpDataLoaded' = TRUE
            /\ CategoryEffects
            /\ LocationEffect
            /\ UNCHANGED isValidatingCodes
            /\ AutoSaveEffect
       ELSE FormUnchanged
  /\ UNCHANGED <<leadsVars, serpMounted,
                 events, serp_exc_cat, user_accounts, serpError, serpMessage,
                 serpIsLoading, accountNumber, isSaving, searchPreviewModalOpen>>

\* the timeout of the validation effect fires: validateLocationCodes up to
\* its first await
ValidateTimerFires ==
  /\ validateTimer
  /\ validateTimer' = FALSE
  /\ UNCHANGED <<serpFields, serpDataLoaded, invalidCategoryItems,
                 invalidExcludedCategoryItems>>
  /\ IF ~Truthy(Trim(serpLocations))
     THEN /\ invalidLocationCodes' = <<>>
          /\ UNCHANGED <<isValidatingCodes, serpRuns>>
          \* setInvalidLocationCodes([]) is a new array: the autosave effect runs
          /\ autoSaveTimers' = IF ArmedAfterRender THEN <<RenderedFields>> ELSE <<>>
     ELSE /\ Len(serpRuns) < MaxTasks
          /\ isValidatingCodes' = TRUE
          /\ serpRuns' = Append(serpRuns, NewRun("validate", "vToken"))
          /\ UNCHANGED invalidLocationCodes
          /\ AutoSaveEffect
  /\ UNCHANGED <<leadsVars, serpMounted,
                 events, serp_exc_cat, user_accounts, serpError, serpMessage,
                 serpIsLoading, accountNumber, isSaving, searchPreviewModalOpen>>

\* the end of validateLocationCodes: finally { setIsValidatingCodes(false) }
ValidateEnd(i) ==
  /\ serpRuns' = RemoveAt(serpRuns, i)
  /\ isValidatingCodes' = FALSE
  /\ UNCHANGED <<serpFields, serpDataLoaded, invalidCategoryItems,
                 invalidExcludedCategoryItems, validateTimer>>
  /\ AutoSaveEffect
  /\ UNCHANGED <<leadsVars, serpMounted,
                 events, serp_exc_cat, user_accounts, serpError, serpMessage,
                 serpIsLoading, accountNumber, isSaving, searchPreviewModalOpen>>

\* validateLocationCodes: await getToken returns
ValidateToken(i) ==
  /\ serpRuns[i].pc = "vToken"
  /\ \E r \in {"ok", "null", "throw"} :
       IF r = "ok"
       THEN IF Len(TrimmedItems(serpRuns[i].locations)) = 0
            THEN invalidLocationCodes' = <<>> /\ ValidateEnd(i)
            ELSE /\ serpRuns' = [serpRuns EXCEPT ![i].pc = "vQuery"]
                 /\ FormUnchanged
                 /\ UNCHANGED <<leadsVars, serpMounted,
                                events, serp_exc_cat, user_accounts,
                                serpError, serpMessage, serpIsLoading, accountNumber,
                                isSaving, searchPreviewModalOpen>>
       ELSE UNCHANGED invalidLocationCodes /\ ValidateEnd(i)

\* validateLocationCodes: await of the google_locations query returns
ValidateQuery(i) ==
  /\ serpRuns[i].pc = "vQuery"
  /\ \E r \in {"ok", "error", "throw"} :
       /\ invalidLocationCodes' =
            IF r = "ok" THEN InvalidCodes(TrimmedItems(serpRuns[i].locations))
            ELSE invalidLocationCodes
       /\ ValidateEnd(i)

\* the timeout of the autosave effect fires: autoSaveSerpSettings up to its
\* first await.  The validation timeout (1500 ms) was set no later than this
\* one (2000 ms), so it is no longer pending.
AutoSaveTimerFires ==
  /\ autoSaveTimer
  /\ ~validateTimer
  /\ \E k \in 1..Len(autoSaveTimers) :
       /\ autoSaveTimers' = RemoveAt(autoSaveTimers, k)
       /\ IF \/ isValidatingCodes
             \/ ~NoInvalidItems(invalidLocationCodes, invalidCategoryItems,
                                invalidExcludedCategoryItems)
          THEN UNCHANGED <<isSaving, serpRuns>>
          ELSE /\ Len(serpRuns) < MaxTasks
               /\ isSaving' = TRUE
               /\ serpRuns' = Append(serpRuns,
                    [op |-> "autosave", pc |-> "token",
                     keywords |-> autoSaveTimers[k].keywords,
                     category |-> autoSaveTimers[k].category,
                     excludedCategory |-> autoSaveTimers[k].excludedCategory,
                     locations |-> autoSaveTimers[k].locations,
                     states |-> autoSaveTimers[k].states,
                     accountNumber |-> accountNumber])
  /\ UNCHANGED <<serpFields, serpDataLoaded, serpInvalid, isValidatingCodes,
                 validateTimer>>
  /\ UNCHANGED <<leadsVars, serpMounted,
                 events, serp_exc_cat, user_accounts, serpError, serpMessage,
                 serpIsLoading, accountNumber, searchPreviewModalOpen>>

\* the row an update writes from the fields of run r
CleanedRow(r) ==
  [serp_keywords |-> OrNull(cleanCommaSeparatedValues(r.keywords, TRUE)),
   serp_cat |-> OrNull(cleanCommaSeparatedValues(r.category, FALSE)),
   serp_locations |-> OrNull(cleanCommaSeparatedValues(r.locations, FALSE)),
   serp_states |-> OrNull(cleanCommaSeparatedValues(r.states, TRUE))]

\* .update({...}).eq('clerk_id', userId) with the fields of run r
WriteSettings(r) ==
  /\ user_accounts' = CleanedRow(r)
  /\ serp_exc_cat' = [serp_exc_cat EXCEPT
                        ![Me] = OrNull(cleanCommaSeparatedValues(r.excludedCategory, FALSE))]

\* autoSaveSerpSettings: await getToken returns
AutoSaveToken(i) ==
  /\ serpRuns[i].op = "autosave" /\ serpRuns[i].pc = "token"
  /\ \E r \in {"ok", "null", "throw"} :
       /\ serpRuns' = IF r = "ok" THEN [serpRuns EXCEPT ![i].pc = "update"]
                      ELSE RemoveAt(serpRuns, i)
       /\ isSaving' = (r = "ok" /\ isSaving)
       /\ serpError' = CASE r = "ok" -> serpError
                         [] r = "null" -> SerpAuthFailed
                         [] OTHER -> SaveThrew
  /\ FormUnchanged
  /\ UNCHANGED <<leadsVars, serpMounted,
                 events, serp_exc_cat, user_accounts, serpMessage,
                 serpIsLoading, accountNumber, searchPreviewModalOpen>>

\* autoSaveSerpSettings: await of the update returns
AutoSaveUpdate(i) ==
  /\ serpRuns[i].op = "autosave" /\ serpRuns[i].pc = "update"
  /\ serpRuns' = RemoveAt(serpRuns, i)
  /\ isSaving' = FALSE
  /\ \E r \in {"ok", "error", "throw"} :
       CASE r = "ok" -> /\ WriteSettings(serpRuns[i])
                        /\ serpError' = ""
                        /\ serpMessage' = SavedAutomatically
         [] r = "error" -> /\ serpError' = SaveFailed
                           /\ UNCHANGED <<serp_exc_cat, user_accounts, serpMessage>>
         [] OTHER -> /\ serpError' = SaveThrew
                     /\ UNCHANGED <<serp_exc_cat, user_accounts, serpMessage>>
  /\ FormUnchanged
  /\ UNCHANGED <<leadsVars, serpMounted, events, serpIsLoading, accountNumber,
                 searchPreviewModalOpen>>

\* setTimeout(() => setMessage(''), 2000)
SerpMessageTimeout ==
  /\ serpMessage = SavedAutomatically
  /\ serpMessage' = ""
  /\ FormUnchanged
  /\ UNCHANGED <<leadsVars, serpMounted,
                 events, serp_exc_cat, user_accounts, serpError,
                 serpIsLoading, accountNumber, isSaving, searchPreviewModalOpen,
                 serpRuns>>

\* the Start Search button
handleStartSearchClick ==
  /\ ~serpIsLoading
  /\ ~searchPreviewModalOpen
  /\ SerpGesture
  /\ serpMessage' = ""
  /\ IF ~NoInvalidItems(invalidLocationCodes, invalidCategoryItems,
                        invalidExcludedCategoryItems)
     THEN serpError' = FixValidationErrors /\ UNCHANGED searchPreviewModalOpen
     ELSE IF ~Truthy(Trim(serpKeywords)) \/ ~Truthy(Trim(serpLocations))
     THEN serpError' = ProvideBoth /\ UNCHANGED searchPreviewModalOpen
     ELSE serpError' = "" /\ searchPreviewModalOpen' = TRUE
  /\ FormUnchanged
  /\ UNCHANGED <<leadsVars, serpMounted,
                 serp_exc_cat, user_accounts, serpIsLoading, accountNumber,
                 isSaving, serpRuns>>

\* the preview modal is dismissed: onOpenChange(false)
CloseSearchPreview ==
  /\ searchPreviewModalOpen
  /\ SerpGesture
  /\ searchPreviewModalOpen' = FALSE
  /\ FormUnchanged
  /\ UNCHANGED <<leadsVars, serpMounted,
                 serp_exc_cat, user_accounts, serpError, serpMessage,
                 serpIsLoading, accountNumber, isSaving, serpRuns>>

\* the preview modal calls onContinue: executeSearch up to its first await
ContinueSearch ==
  /\ searchPreviewModalOpen
  /\ Len(serpRuns) < MaxTasks
  /\ SerpGesture
  /\ searchPreviewModalOpen' = FALSE
  /\ serpIsLoading' = TRUE
  /\ serpError' = ""
  /\ serpMessage' = ""
  /\ serpRuns' = Append(serpRuns, NewRun("search", "token"))
  /\ FormUnchanged
  /\ UNCHANGED <<leadsVars, serpMounted,
                 serp_exc_cat, user_accounts, accountNumber, isSaving>>

\* an exit of executeSearch: setError(msg) or setMessage(msg), finally
SearchEnd(i, err, msg) ==
  /\ serpRuns' = RemoveAt(serpRuns, i)
  /\ serpIsLoading' = FALSE
  /\ serpError' = err
  /\ serpMessage' = msg
  /\ FormUnchanged
  /\ UNCHANGED <<leadsVars, serpMounted,
                 events, accountNumber, isSaving, searchPreviewModalOpen>>

\* executeSearch goes on to its next await
SearchGoesOn(i, pc) ==
  /\ serpRuns' = [serpRuns EXCEPT ![i].pc = pc]
  /\ FormUnchanged
  /\ UNCHANGED <<leadsVars, serpMounted,
                 events, serpError, serpMessage, serpIsLoading,
                 accountNumber, isSaving, searchPreviewModalOpen>>

\* executeSearch: await getToken returns
SearchToken(i) ==
  /\ serpRuns[i].op = "search" /\ serpRuns[i].pc = "token"
  /\ UNCHANGED <<serp_exc_cat, user_accounts>>
  /\ \E r \in {"ok", "null", "throw"} :
       CASE r = "ok" -> SearchGoesOn(i, "update")
         [] r = "null" -> SearchEnd(i, SerpAuthFailed, serpMessage)
         [] OTHER -> SearchEnd(i, SearchThrew, serpMessage)

\* executeSearch: await of the update returns
SearchUpdate(i) ==
  /\ serpRuns[i].op = "search" /\ serpRuns[i].pc = "update"
  /\ \E r \in {"ok", "error", "throw"} :
       CASE r = "ok" ->
              /\ WriteSettings(serpRuns[i])
              /\ IF serpRuns[i].accountNumber = NoAccount
                 THEN SearchEnd(i, NoAccountNumber, serpMessage)
                 ELSE SearchGoesOn(i, "clerkToken")
         [] r = "error" ->
              /\ UNCHANGED <<serp_exc_cat, user_accounts>>
              /\ SearchEnd(i, UpdateBeforeSearchFailed, serpMessage)
         [] OTHER ->
              /\ UNCHANGED <<serp_exc_cat, user_accounts>>
              /\ SearchEnd(i, SearchThrew, serpMessage)

\* executeSearch: await getToken() for the webhook returns
SearchClerkToken(i) ==
  /\ serpRuns[i].pc = "clerkToken"
  /\ UNCHANGED <<serp_exc_cat, user_accounts>>
  /\ \E r \in {"ok", "null", "throw"} :
       CASE r = "ok" -> SearchGoesOn(i, "webhook")
         [] r = "null" -> SearchEnd(i, NoClerkToken, serpMessage)
         [] OTHER -> SearchEnd(i, SearchThrew, serpMessage)

\* executeSearch: await fetch(webhook) returns and the body is read
SearchWebhook(i) ==
  /\ serpRuns[i].pc = "webhook"
  /\ UNCHANGED <<serp_exc_cat, user_accounts>>
  /\ \E r \in {"ok", "notOk", "throw"} :
       IF r = "ok" THEN SearchEnd(i, serpError, SearchStarted)
       ELSE SearchEnd(i, SearchThrew, serpMessage)

\* the settings page is not mounted
SettingsIdle ==
  /\ serpError = ""
  /\ serpMessage = ""
  /\ serpIsLoading = FALSE
  /\ accountNumber = NoAccount
  /\ serpKeywords = <<>>
  /\ serpCategory = <<>>
  /\ serpExcludedCategory = <<>>
  /\ serpLocations = <<>>
  /\ serpStates = <<>>
  /\ serpDataLoaded = FALSE
  /\ isSaving = FALSE
  /\ invalidLocationCodes = <<>>
  /\ isValidatingCodes = FALSE
  /\ invalidCategoryItems = <<>>
  /\ invalidExcludedCategoryItems = <<>>
  /\ searchPreviewModalOpen = FALSE
  /\ autoSaveTimers = <<>>
  /\ validateTimer = FALSE
  /\ serpMounted = TRUE

\* no row of user_accounts is looked at
NoSettingsRow ==
  [serp_keywords |-> Null, serp_cat |-> Null, serp_locations |-> Null,
   serp_states |-> Null]

\* ----------------------------------------------------- main specification
\* The store of the main specification.  The signed-in account is associated
\* with leads 1..NumLeads, another account with lead 1.  With earlier = TRUE
\* an earlier session has excluded lead 1 (at time 1) for both accounts.
MainUserLeads(earlier) ==
  [a \in 1..(NumLeads + 1) |->
     [user_id |-> IF a <= NumLeads THEN Me ELSE Other,
      lead_id |-> IF a <= NumLeads THEN a ELSE 1,
      excluded |-> IF earlier /\ (a = 1 \/ a = NumLeads + 1) THEN 1 ELSE NotExcluded]]

MainLeads ==
  [l \in 1..NumLeads |->
     [email |-> IF l % 3 = 0 THEN EmailNotFound ELSE "lead@example.com",
      categories |-> IF l % 2 = 1 THEN <<"a", " ", "b">> ELSE <<"a">>]]

InitPage ==
  /\ isLoading = FALSE
  /\ error = ""
  /\ successMessage = ""
  /\ userAccountId = NoAccount
  /\ leads = <<>>
  /\ currentPage = 1
  /\ totalRecords = 0
  /\ totalPages = 0
  /\ selectedLeads = {}
  /\ excludeDialogOpen = FALSE
  /\ emailSettingsModalOpen = FALSE
  /\ availableCategories = <<>>
  /\ selectedCategories = <<>>
  /\ customCategory = <<>>
  /\ customCategoryError = FALSE
  /\ tasks = <<>>
  /\ filteredUserLeads = <<>>
  /\ events = 0

Init ==
  /\ \E earlier \in BOOLEAN :
       /\ user_leads = MainUserLeads(earlier)
       /\ serp_exc_cat = [acct \in {Me, Other} |->
                            IF acct = Me /\ ~earlier THEN <<>> ELSE <<"b", ",", "a">>]
  /\ serp_leads_v2 = MainLeads
  /\ email_drafts = {}
  /\ clock = 2
  /\ recordsPerPage = 1
  /\ showWithoutEmails = FALSE
  /\ showEmailedLeads = FALSE
  /\ showExcludedLeads = FALSE
  /\ InitPage
  /\ SettingsIdle
  /\ sweepLog = <<>>
  /\ user_accounts = NoSettingsRow
  /\ serpRuns = <<>>

TaskStep(i) ==
  \/ LoadGetToken(i)
  \/ LoadUserLeads(i)
  \/ LoadLeadEmails(i)
  \/ LoadDrafts(i)
  \/ LoadHydrate(i)
  \/ ExcludeToken(i)
  \/ ExcludeUpdate(i)
  \/ ExcludeFetchCat(i)
  \/ ExcludeUpdateCat(i)
  \/ RestoreToken(i)
  \/ RestoreUpdate(i)

Next ==
  \/ LoadAccountNumber
  \/ ToggleShowWithoutEmails
  \/ ToggleShowEmailedLeads
  \/ ToggleShowExcludedLeads
  \/ \E n \in ScaledPageSizes : SetRecordsPerPage(n)
  \/ NextPage
  \/ PrevPage
  \/ \E l \in DOMAIN serp_leads_v2 : toggleLeadSelection(l)
  \/ toggleSelectAll
  \/ SuccessTimeout
  \/ handleRemoveLeads
  \/ \E c \in Range(availableCategories) : toggleCategorySelection(c)
  \/ \E v \in CustomInputs : validateCustomCategory(v)
  \/ CloseExcludeDialog
  \/ confirmExcludeLeads
  \/ handleRestoreLeads
  \/ \E i \in 1..Len(tasks) : TaskStep(i)

Spec == Init /\ [][Next]_vars

\* --------------------------------------------------- filter specification
\* loadLeads as a function of the store, the filter configuration, the page
\* size and the page: Init draws them, the account is resolved, and the pager
\* walks the pages.  Stores of up to SmallLeads leads are drawn exhaustively
\* and paged with the scaled page sizes; the two large stores are paged with
\* the page sizes of the select box.
SmallStores ==
  { [n |-> n, email |-> e, excluded |-> x, drafted |-> d] :
      n \in 0..SmallLeads,
      e \in [1..SmallLeads -> {"", EmailNotFound, "lead@example.com"}],
      x \in [1..SmallLeads -> 0..2],
      d \in SUBSET (1..SmallLeads) }

InitFilterSmall ==
  \E st \in { t \in SmallStores :
                /\ \A l \in (t.n + 1)..SmallLeads :
                     t.email[l] = "" /\ t.excluded[l] = 0
                /\ t.drafted \subseteq 1..t.n } :
    /\ user_leads = [a \in 1..(st.n + 1) |->
         [user_id |-> IF a <= st.n THEN Me ELSE Other,
          lead_id |-> IF a <= st.n THEN a ELSE 1,
          excluded |-> IF a <= st.n THEN st.excluded[a] ELSE 1]]
    /\ serp_leads_v2 = [l \in 1..Max(st.n, 1) |->
         [email |-> IF l <= st.n THEN st.email[l] ELSE "lead@example.com",
          categories |-> <<"a">>]]
    /\ email_drafts = { [user_id |-> Me, lead_id |-> l] : l \in st.drafted }
                        \cup { [user_id |-> Other, lead_id |-> 1] }
    /\ recordsPerPage \in ScaledPageSizes

InitFilterBig ==
  \E n \in {BigLeads - 1, BigLeads} :
    LET plain == n = BigLeads - 1
    IN  /\ user_leads = [a \in 1..(n + 1) |->
             [user_id |-> IF a <= n THEN Me ELSE Other,
              lead_id |-> IF a <= n THEN a ELSE 1,
              excluded |-> IF a > n \/ (~plain /\ a % 11 = 0) THEN 1 ELSE NotExcluded]]
        /\ serp_leads_v2 = [l \in 1..n |->
             [email |-> IF ~plain /\ l % 7 = 0 THEN EmailNotFound ELSE "lead@example.com",
              categories |-> <<"a">>]]
        /\ email_drafts = { [user_id |-> Me, lead_id |-> l] :
                              l \in { k \in 1..n : ~plain /\ k % 10 = 0 } }
                            \cup { [user_id |-> Other, lead_id |-> 1] }
        /\ recordsPerPage \in PageSizeOptions

InitFilter ==
  /\ InitFilterSmall \/ InitFilterBig
  /\ serp_exc_cat = [acct \in {Me, Other} |-> <<>>]
  /\ clock = 2
  /\ showWithoutEmails \in BOOLEAN
  /\ showEmailedLeads \in BOOLEAN
  /\ showExcludedLeads \in BOOLEAN
  /\ InitPage
  /\ SettingsIdle
  /\ sweepLog = <<>>
  /\ user_accounts = NoSettingsRow
  /\ serpRuns = <<>>

NextFilter ==
  \/ LoadAccountNumber
  \/ NextPage
  \/ PrevPage
  \/ \E i \in 1..Len(tasks) :
       \/ LoadGetToken(i)
       \/ LoadUserLeads(i)
       \/ LoadLeadEmails(i)
       \/ LoadDrafts(i)
       \/ LoadHydrate(i)

FilterSpec == InitFilter /\ [][NextFilter]_vars

\* ----------------------------------------- email generation specification
\* the leads page with the Verify Emails workflow: the pager, the selection,
\* the "already emailed" toggle, the modal and triggerEmailGeneration
LoadStep(i) ==
  \/ LoadGetToken(i)
  \/ LoadUserLeads(i)
  \/ LoadLeadEmails(i)
  \/ LoadDrafts(i)
  \/ LoadHydrate(i)

GenerateStep(i) ==
  \/ ModalSaveToken(i)
  \/ ModalSaveUpdate(i)
  \/ GenerateToken(i)
  \/ GenerateAccount(i)
  \/ GenerateClerkToken(i)
  \/ GenerateFetch(i)
  \/ GenerateErrorText(i)
  \/ GenerateBody(i)
  \/ GenerateDelay(i)

NextEmail ==
  \/ LoadAccountNumber
  \/ ToggleShowEmailedLeads
  \/ NextPage
  \/ PrevPage
  \/ \E l \in DOMAIN serp_leads_v2 : toggleLeadSelection(l)
  \/ toggleSelectAll
  \/ SuccessTimeout
  \/ handleGenerateEmails
  \/ CloseEmailSettings
  \/ EmailSettingsContinue
  \/ \E i \in 1..Len(tasks) : LoadStep(i) \/ GenerateStep(i)

EmailSpec == Init /\ [][NextEmail]_vars

\* ------------------------------------------------ liveness specification
\* the whole leads page, with every await of every run eventually returning
RunStep(i) == TaskStep(i) \/ GenerateStep(i)

NextLive ==
  \/ Next
  \/ handleGenerateEmails
  \/ CloseEmailSettings
  \/ EmailSettingsContinue
  \/ \E i \in 1..Len(tasks) : GenerateStep(i)

LiveSpec ==
  /\ Init
  /\ [][NextLive]_vars
  /\ WF_vars(\E i \in 1..Len(tasks) : RunStep(i))

\* ------------------------------------------------ validation specification
\* The exclusion dialog as a function of the text typed into its custom
\* category field.  Init is the page after the account was resolved, the
\* first page was loaded with one lead per page, lead 2 was selected and
\* Remove Leads was clicked; every string of up to MaxStrLen characters over
\* Alphabet can be typed into the empty field, and a typed string can be
\* replaced by one of CustomInputs.
Alphabet == {"a", "b", "_", ",", " ", "A"}

TypedStrings == UNION { [1..n -> Alphabet] : n \in 0..MaxStrLen }

DialogOpened ==
  /\ user_leads = MainUserLeads(FALSE)
  /\ serp_leads_v2 = MainLeads
  /\ email_drafts = {}
  /\ serp_exc_cat = [acct \in {Me, Other} |-> IF acct = Me THEN <<>> ELSE <<"b", ",", "a">>]
  /\ clock = 2
  /\ recordsPerPage = 1
  /\ showWithoutEmails = FALSE
  /\ showEmailedLeads = FALSE
  /\ showExcludedLeads = FALSE
  /\ isLoading = FALSE
  /\ error = ""
  /\ successMessage = ""
  /\ userAccountId = Me
  /\ leads = <<[id |-> 2, excluded |-> NotExcluded]>>
  /\ currentPage = 1
  /\ totalRecords = 2
  /\ totalPages = 2
  /\ selectedLeads = {2}
  /\ excludeDialogOpen = TRUE
  /\ emailSettingsModalOpen = FALSE
  /\ availableCategories = <<<<"a">>>>
  /\ selectedCategories = <<>>
  /\ customCategory = <<>>
  /\ customCategoryError = FALSE
  /\ tasks = <<>>
  /\ filteredUserLeads = <<[id |-> 2, lead_id |-> 2, excluded |-> NotExcluded],
                           [id |-> 1, lead_id |-> 1, excluded |-> NotExcluded]>>

InitValidate ==
  /\ DialogOpened
  /\ events = 0
  /\ SettingsIdle
  /\ sweepLog = <<>>
  /\ user_accounts = NoSettingsRow
  /\ serpRuns = <<>>

NextValidate ==
  \/ customCategory = <<>> /\ \E v \in TypedStrings : validateCustomCategory(v)
  \/ \E v \in CustomInputs : validateCustomCategory(v)
  \/ confirmExcludeLeads
  \/ \E i \in 1..Len(tasks) :
       \/ ExcludeToken(i)
       \/ ExcludeUpdate(i)
       \/ ExcludeFetchCat(i)
       \/ ExcludeUpdateCat(i)
       \/ LoadGetToken(i)
       \/ LoadUserLeads(i)
       \/ LoadLeadEmails(i)
       \/ LoadHydrate(i)

ValidateSpec == InitValidate /\ [][NextValidate]_vars

\* --------------------------------------------------- session specification
\* The page in the middle of a session: an earlier session excluded lead 1,
\* the user has switched to the excluded view, selected lead 1 and clicked
\* Restore Leads, and the Restore run waits for its token.
RestoreStarted ==
  /\ user_leads = MainUserLeads(TRUE)
  /\ serp_leads_v2 = MainLeads
  /\ email_drafts = {}
  /\ serp_exc_cat = [acct \in {Me, Other} |-> <<"b", ",", "a">>]
  /\ clock = 2
  /\ recordsPerPage = 1
  /\ showWithoutEmails = FALSE
  /\ showEmailedLeads = FALSE
  /\ showExcludedLeads = TRUE
  /\ isLoading = TRUE
  /\ error = ""
  /\ successMessage = ""
  /\ userAccountId = Me
  /\ leads = <<[id |-> 1, excluded |-> 1]>>
  /\ currentPage = 1
  /\ totalRecords = 1
  /\ totalPages = 1
  /\ selectedLeads = {1}
  /\ excludeDialogOpen = FALSE
  /\ emailSettingsModalOpen = FALSE
  /\ availableCategories = <<>>
  /\ selectedCategories = <<>>
  /\ customCategory = <<>>
  /\ customCategoryError = FALSE
  /\ tasks = <<[op |-> "restore", pc |-> "rToken", page |-> 1, perPage |-> 1,
                withoutEmails |-> FALSE, emailedToo |-> FALSE, excludedView |-> TRUE,
                acct |-> Me, sel |-> {1}, cats |-> <<>>, custom |-> <<>>,
                stamp |-> 0, data |-> <<>>, withEmail |-> {}, paged |-> <<>>,
                newCat |-> <<>>]>>
  /\ filteredUserLeads = <<[id |-> 1, lead_id |-> 1, excluded |-> 1]>>

InitSession ==
  /\ RestoreStarted
  /\ events = 0
  /\ SettingsIdle
  /\ sweepLog = <<>>
  /\ user_accounts = NoSettingsRow
  /\ serpRuns = <<>>

NextSession ==
  \/ ToggleShowWithoutEmails
  \/ ToggleShowEmailedLeads
  \/ ToggleShowExcludedLeads
  \/ \E n \in ScaledPageSizes : SetRecordsPerPage(n)
  \/ NextPage
  \/ PrevPage
  \/ \E l \in DOMAIN serp_leads_v2 : toggleLeadSelection(l)
  \/ toggleSelectAll
  \/ SuccessTimeout
  \/ handleRemoveLeads
  \/ \E c \in Range(availableCategories) : toggleCategorySelection(c)
  \/ \E v \in CustomInputs : validateCustomCategory(v)
  \/ CloseExcludeDialog
  \/ confirmExcludeLeads
  \/ handleRestoreLeads
  \/ \E i \in 1..Len(tasks) : TaskStep(i)

SessionSpec == InitSession /\ [][NextSession]_vars

\* --------------------------------------------------- settings specification
\* The settings page from its mount.  The stored row is empty or holds an
\* earlier, valid configuration.
StoredRows ==
  { [row |-> NoSettingsRow, serp_exc_cat |-> Null],
    [row |-> [serp_keywords |-> <<"a">>, serp_cat |-> <<"a">>,
              serp_locations |-> <<"1">>, serp_states |-> <<"a">>],
     serp_exc_cat |-> <<"b", ",", "a">>] }

\* the run the mount effect starts: loadAccountNumber at its first await
MountRun ==
  [op |-> "load", pc |-> "aToken", keywords |-> <<>>, category |-> <<>>,
   excludedCategory |-> <<>>, locations |-> <<>>, states |-> <<>>,
   accountNumber |-> NoAccount]

\* the leads page is not in use
LeadsIdle ==
  /\ user_leads = MainUserLeads(FALSE)
  /\ serp_leads_v2 = MainLeads
  /\ email_drafts = {}
  /\ clock = 2
  /\ recordsPerPage = 1
  /\ showWithoutEmails = FALSE
  /\ showEmailedLeads = FALSE
  /\ showExcludedLeads = FALSE
  /\ InitPage

InitSettings ==
  /\ LeadsIdle
  /\ \E st \in StoredRows :
       /\ user_accounts = st.row
       /\ serp_exc_cat = [acct \in {Me, Other} |->
                            IF acct = Me THEN st.serp_exc_cat ELSE <<"b", ",", "a">>]
  /\ SettingsIdle
  /\ sweepLog = <<>>
  /\ serpRuns = <<MountRun>>

NextSettings ==
  \/ \E v \in KeywordInputs : setSerpKeywords(v)
  \/ \E v \in CategoryInputs : setSerpCategory(v)
  \/ \E v \in ExcludedCategoryInputs : setSerpExcludedCategory(v)
  \/ \E raw \in LocationInputs : setSerpLocations(raw)
  \/ \E v \in StateInputs : setSerpStates(v)
  \/ ValidateTimerFires
  \/ AutoSaveTimerFires
  \/ SerpMessageTimeout
  \/ handleStartSearchClick
  \/ CloseSearchPreview
  \/ ContinueSearch
  \/ \E i \in 1..Len(serpRuns) :
       \/ LoadAccountToken(i)
       \/ LoadAccountQuery(i)
       \/ LoadSettingsToken(i)
       \/ LoadSettingsQuery(i)
       \/ ValidateToken(i)
       \/ ValidateQuery(i)
       \/ AutoSaveToken(i)
       \/ AutoSaveUpdate(i)
       \/ SearchToken(i)
       \/ SearchUpdate(i)
       \/ SearchClerkToken(i)
       \/ SearchWebhook(i)

SettingsSpec == InitSettings /\ [][NextSettings]_vars

\* ------------------------------------------------------------ debounce
\* SerpSettingsPage unmounts: the cleanups of the autosave effect and of
\* the validation effect clear their timeouts. Nothing cancels the
\* requests in flight, and the state of the unmounted page is no longer
\* rendered, so no effect runs after it.
Unmount ==
  /\ serpMounted
  /\ serpMounted' = FALSE
  /\ autoSaveTimers' = <<>>
  /\ validateTimer' = FALSE
  /\ UNCHANGED <<serpFields, serpDataLoaded, serpInvalid, isValidatingCodes,
                 serpRuns>>
  /\ UNCHANGED <<leadsVars, events, serp_exc_cat, user_accounts, serpError,
                 serpMessage, serpIsLoading, accountNumber, isSaving,
                 searchPreviewModalOpen>>

\* The settings page edited, validated and autosaved until it unmounts.
NextDebounce ==
  \/ \E v \in KeywordInputs : setSerpKeywords(v)
  \/ \E v \in CategoryInputs : setSerpCategory(v)
  \/ \E v \in ExcludedCategoryInputs : setSerpExcludedCategory(v)
  \/ \E raw \in LocationInputs : setSerpLocations(raw)
  \/ \E v \in StateInputs : setSerpStates(v)
  \/ ValidateTimerFires
  \/ AutoSaveTimerFires
  \/ SerpMessageTimeout
  \/ Unmount
  \/ \E i \in 1..Len(serpRuns) :
       \/ LoadAccountToken(i)
       \/ LoadAccountQuery(i)
       \/ LoadSettingsToken(i)
       \/ LoadSettingsQuery(i)
       \/ ValidateToken(i)
       \/ ValidateQuery(i)
       \/ AutoSaveToken(i)
       \/ AutoSaveUpdate(i)

DebounceSpec == InitSettings /\ [][NextDebounce]_vars

\* ------------------------------------------------------ normalization
\* The settings page over rows whose columns hold any short text, as left by
\* another writer of user_accounts: the form is loaded from the row and saved
\* back by autosave or by a search, without edits.
TextsOver(chars, n) == UNION { [1..k -> chars] : k \in 0..n }

StoredKeywordTexts == TextsOver({"a", " ", ","}, MaxStoredLen)
StoredLocationTexts == TextsOver({"1", " ", ","}, MaxStoredLen)
StoredCategoryTexts == { Null, <<" ", "a", ",", ",", "b", " ">> }

InitNormalize ==
  /\ LeadsIdle
  /\ \E v \in StoredKeywordTexts, l \in StoredLocationTexts, c \in StoredCategoryTexts :
       /\ user_accounts = [serp_keywords |-> v, serp_cat |-> c,
                           serp_locations |-> l, serp_states |-> v]
       /\ serp_exc_cat = [acct \in {Me, Other} |->
                            IF acct = Me THEN c ELSE <<"b", ",", "a">>]
  /\ SettingsIdle
  /\ sweepLog = <<>>
  /\ serpRuns = <<MountRun>>

NextNormalize ==
  \/ ValidateTimerFires
  \/ AutoSaveTimerFires
  \/ SerpMessageTimeout
  \/ handleStartSearchClick
  \/ CloseSearchPreview
  \/ ContinueSearch
  \/ \E i \in 1..Len(serpRuns) :
       \/ LoadAccountToken(i)
       \/ LoadAccountQuery(i)
       \/ LoadSettingsToken(i)
       \/ LoadSettingsQuery(i)
       \/ ValidateToken(i)
       \/ ValidateQuery(i)
       \/ AutoSaveToken(i)
       \/ AutoSaveUpdate(i)
       \/ SearchToken(i)
       \/ SearchUpdate(i)
       \/ SearchClerkToken(i)
       \/ SearchWebhook(i)

NormalizeSpec == InitNormalize /\ [][NextNormalize]_vars

\* ---------------------------------------------------- retention sweep
\* The edge function delete-old-email-drafts over a table of drafts. Time is
\* counted in days: exported is the day of the export, clock the day of now.

\* variant: a draft exported exactly at the cutoff is deleted too
OldDrafts_Inclusive(drafts, cutoffDate) ==
  { d \in drafts : d.exported # NotExported /\ d.exported <= cutoffDate }

\* variant: a request deletes one of the old drafts only
OldDrafts_OneAtATime(drafts, cutoffDate) ==
  LET old == { d \in drafts : d.exported # NotExported /\ d.exported < cutoffDate }
  IN  IF old = {} THEN {} ELSE { CHOOSE d \in old : \A e \in old : d.lead_id <= e.lead_id }

\* .not('exported', 'is', null).lt('exported', cutoffDate)
OldDrafts(drafts, cutoffDate) ==
  { d \in drafts : d.exported # NotExported /\ d.exported < cutoffDate }

\* the columns of vars the edge function and the passing of time leave alone
pagesVars == <<user_leads, serp_leads_v2, serp_exc_cat, filterVars, dialogVars,
               resultVars, isLoading, error, successMessage, userAccountId,
               currentPage, selectedLeads, tasks, filteredUserLeads, events,
               settingsVars>>

\* a request with the body of its response
SweepResponse(method, success, deletedCount, cutoffDate) ==
  [method |-> method, success |-> success, deletedCount |-> deletedCount,
   cutoffDate |-> cutoffDate]

\* one request to the function. A preflight is answered at once; otherwise
\* the cutoff is computed and one DELETE is sent: it deletes and reports the
\* count, or fails without deleting, or the call throws, with the statement
\* executed or not.
deleteOldEmailDrafts ==
  /\ Len(sweepLog) < MaxSweeps
  /\ LET cutoffDate == clock - RetentionDays
         old == OldDrafts(email_drafts, cutoffDate)
     IN  \E r \in {"options", "ok", "error", "throw", "thrownAfter"} :
           /\ email_drafts' = IF r \in {"ok", "thrownAfter"} THEN email_drafts \ old
                              ELSE email_drafts
           /\ sweepLog' = Append(sweepLog,
                CASE r = "options" -> SweepResponse("OPTIONS", TRUE, 0, cutoffDate)
                  [] r = "ok" -> SweepResponse("POST", TRUE, Cardinality(old), cutoffDate)
                  [] OTHER -> SweepResponse("POST", FALSE, 0, cutoffDate))
  /\ UNCHANGED <<clock, pagesVars>>

\* a day passes
DayPasses ==
  /\ clock < RetentionDays + MaxExported + 1
  /\ clock' = clock + 1
  /\ UNCHANGED <<email_drafts, sweepLog, pagesVars>>

\* the tables of drafts: each lead has no draft, a draft not exported yet or
\* a draft exported on some day
DraftTables ==
  { { [user_id |-> Me, lead_id |-> l, exported |-> f[l]] :
        l \in { k \in 1..SweepDrafts : f[k] >= 0 } } :
    f \in [1..SweepDrafts -> (0 - 1)..MaxExported] }

InitSweep ==
  /\ user_leads = MainUserLeads(FALSE)
  /\ serp_leads_v2 = MainLeads
  /\ email_drafts \in DraftTables
  /\ clock = RetentionDays
  /\ serp_exc_cat = [acct \in {Me, Other} |-> <<>>]
  /\ recordsPerPage = 1
  /\ showWithoutEmails = FALSE
  /\ showEmailedLeads = FALSE
  /\ showExcludedLeads = FALSE
  /\ InitPage
  /\ user_accounts = NoSettingsRow
  /\ SettingsIdle
  /\ sweepLog = <<>>
  /\ serpRuns = <<>>

NextSweep ==
  \/ deleteOldEmailDrafts
  \/ DayPasses

SweepSpec == InitSweep /\ [][NextSweep]_vars

\* ================================================================= claims
\* a loadLeads run has finished without reporting an error and none is running
LoadSucceeded == userAccountId # NoAccount /\ tasks = <<>> /\ error = ""

RECURSIVE SumPageLens(_, _, _)
\* the lengths of pages 1..p of list
SumPageLens(list, perPage, p) ==
  IF p <= 0 THEN 0
  ELSE Len(PageSlice(list, p, perPage)) + SumPageLens(list, perPage, p - 1)

\* C1: every page loadLeads computes (the slice of the filtered list from
\* (page-1)*pageSize to page*pageSize) has at most pageSize entries, and the
\* lengths of pages 1..totalPages add up to totalRecords.
C1_PagesPartitionFilteredList ==
  /\ \A i \in 1..Len(tasks) :
       tasks[i].pc = "hydrate" => Len(tasks[i].paged) <= tasks[i].perPage
  /\ \A p \in 1..totalPages :
       Len(PageSlice(filteredUserLeads, p, recordsPerPage)) <= recordsPerPage
  /\ SumPageLens(filteredUserLeads, recordsPerPage, totalPages) = totalRecords

\* a run is fetching the rows of a partly filled last page
C1_Witness ==
  /\ totalPages >= 3
  /\ \E i \in 1..Len(tasks) :
       /\ tasks[i].pc = "hydrate"
       /\ tasks[i].page = totalPages
       /\ Len(tasks[i].paged) > 0
       /\ Len(tasks[i].paged) < tasks[i].perPage

\* C2: after a successful loadLeads totalRecords is the length of the
\* filtered, unpaginated list and totalPages is ceil(totalRecords / pageSize),
\* on whichever page the view is; 120 rows at page size 50 give 3 pages, 50
\* rows on page 1 and 20 rows on page 3.
C2_TotalsFromFilteredList ==
  LoadSucceeded =>
    /\ totalRecords = Len(filteredUserLeads)
    /\ totalPages * recordsPerPage >= totalRecords
    /\ (totalPages - 1) * recordsPerPage < totalRecords \/ totalPages = 0
    /\ (Len(filteredUserLeads) = 120 /\ recordsPerPage = 50) =>
         /\ totalPages = 3
         /\ currentPage = 1 => Len(leads) = 50
         /\ currentPage = 3 => Len(leads) = 20

\* the scenario: 120 rows, page size 50, page 3 on display
C2_Witness ==
  /\ LoadSucceeded
  /\ Len(filteredUserLeads) = 120
  /\ recordsPerPage = 50
  /\ currentPage = 3
  /\ Len(leads) = 20

\* the reference filter of the claim, over the store and the toggles
ReferenceKept(a) ==
  LET r == user_leads[a]
      drafted == \E d \in email_drafts :
                   d.user_id = userAccountId /\ d.lead_id = r.lead_id
      email == IF r.lead_id \in DOMAIN serp_leads_v2
               THEN serp_leads_v2[r.lead_id].email ELSE ""
  IN  /\ r.user_id = userAccountId
      /\ (r.excluded # NotExcluded) <=> showExcludedLeads
      /\ \/ showExcludedLeads
         \/ /\ showEmailedLeads \/ ~drafted
            /\ showWithoutEmails \/ (email # "" /\ email # EmailNotFound)

\* C3: the filtered list loadLeads builds holds exactly the associations the
\* reference filter keeps (store and toggles do not change in FilterSpec).
C3_FilteredListIsReference ==
  LoadSucceeded =>
    /\ { filteredUserLeads[k].id : k \in 1..Len(filteredUserLeads) }
         = { a \in DOMAIN user_leads : ReferenceKept(a) }
    /\ \A j, k \in 1..Len(filteredUserLeads) :
         filteredUserLeads[j].id = filteredUserLeads[k].id => j = k

\* the association of the signed-in account that a displayed lead belongs to
AssociationOf(leadId) ==
  CHOOSE a \in DOMAIN user_leads :
    user_leads[a].user_id = userAccountId /\ user_leads[a].lead_id = leadId

\* C4 as stated: whenever no loadLeads run is in flight, every displayed lead
\* belongs to an association whose excluded value matches the selected view.
C4_DisplayedLeadsMatchView ==
  ~LoadInFlight =>
    \A k \in 1..Len(leads) :
      (user_leads[AssociationOf(leads[k].id)].excluded # NotExcluded)
        <=> showExcludedLeads

\* C4 as amended: the leads a loadLeads run puts on display all carry an
\* excluded value, as that run fetched it, that matches the view the run was
\* started with (null in the normal view, non-null in the excluded view).
C4_DisplayedLeadsMatchViewOfRun ==
  [][ (leads' # leads /\ leads' # <<>>) =>
        \E i \in 1..Len(tasks) :
          /\ tasks[i].pc = "hydrate"
          /\ tasks' = RemoveAt(tasks, i)
          /\ LeadIds(leads') = { tasks[i].paged[k].lead_id : k \in 1..Len(tasks[i].paged) }
          /\ \A k \in 1..Len(leads') :
               (leads'[k].excluded # NotExcluded) <=> tasks[i].excludedView ]_vars

\* the excluded view shows an excluded lead
C4_Witness ==
  /\ showExcludedLeads
  /\ tasks = <<>>
  /\ Len(leads) > 0
  /\ \A k \in 1..Len(leads) : leads[k].excluded # NotExcluded

\* C5: a change of a view toggle or of the page size sets the page to 1 and
\* empties the selection; a change of the page alone keeps the selection.
C5_FilterChangeResetsPageAndSelection ==
  [][ /\ filterVars' # filterVars => (currentPage' = 1 /\ selectedLeads' = {})
      /\ (currentPage' # currentPage /\ filterVars' = filterVars) =>
           selectedLeads' = selectedLeads ]_vars

\* a toggle was flipped on page 2: the load it started still carries page 2
C5_Witness ==
  /\ Len(tasks) = 2
  /\ tasks[1].page = 2
  /\ tasks[1].excludedView
  /\ showExcludedLeads
  /\ currentPage = 1
  /\ selectedLeads = {}
  /\ events = 3

\* the step in which the user_leads query of run i reports an error
PrimaryFetchFails(i) ==
  /\ tasks[i].pc = "userLeads"
  /\ tasks' = RemoveAt(tasks, i)
  /\ error # QueryFailed
  /\ error' = QueryFailed

\* C6 as stated: when the primary association fetch of loadLeads fails, the
\* failure is reported and totalRecords is reset to zero.
C6_PrimaryFailureResetsTotal ==
  [][ \A i \in 1..Len(tasks) : PrimaryFetchFails(i) => totalRecords' = 0 ]_vars

\* C6 as amended: when the primary association fetch fails, the failure is
\* reported and totalRecords, totalPages and the leads on display stay as
\* they were.
C6_PrimaryFailureKeepsResults ==
  [][ \A i \in 1..Len(tasks) :
        PrimaryFetchFails(i) => (error' # "" /\ UNCHANGED resultVars) ]_vars

\* a failure is on display next to the results of the run before it
C6_Witness ==
  /\ error = QueryFailed
  /\ tasks = <<>>
  /\ totalRecords > 0
  /\ Len(leads) > 0

\* task i takes the step
Stepped(i) ==
  \/ Len(tasks') = Len(tasks) /\ tasks'[i] # tasks[i]
  \/ tasks' = RemoveAt(tasks, i)

\* the step in which the user_leads update of Exclude run i succeeds
ExcludeUpdated(i) ==
  /\ tasks[i].pc = "xUpdate"
  /\ Len(tasks') = Len(tasks)
  /\ tasks'[i].pc \in {"xFetchCat", "token"}

\* C7: a successful Exclude gives a non-null excluded timestamp to every
\* association of the current account whose lead is in the selection, leaves
\* the excluded value of every other association (other leads, other
\* accounts) alone, and creates or deletes no association.
C7_ExcludeUpdatesSelectedOnly ==
  [][ \A i \in 1..Len(tasks) :
        (tasks[i].op = "exclude" /\ Stepped(i)) =>
          IF ExcludeUpdated(i)
          THEN /\ DOMAIN user_leads' = DOMAIN user_leads
               /\ \A a \in DOMAIN user_leads :
                    /\ user_leads'[a].user_id = user_leads[a].user_id
                    /\ user_leads'[a].lead_id = user_leads[a].lead_id
                    /\ IF /\ user_leads[a].user_id = userAccountId
                          /\ user_leads[a].lead_id \in tasks[i].sel
                       THEN user_leads'[a].excluded # NotExcluded
                       ELSE user_leads'[a].excluded = user_leads[a].excluded
          ELSE user_leads' = user_leads ]_vars

\* lead 1 has just been excluded for the signed-in account and not for the
\* other account that is associated with it
C7_Witness ==
  /\ successMessage = "Successfully excluded"
  /\ user_leads[1].excluded >= 2
  /\ user_leads[NumLeads + 1].lead_id = 1
  /\ user_leads[NumLeads + 1].excluded = NotExcluded

\* the tokens of a comma-separated set
Tokens(str) == FilterNonBlank(Split(str, ","))

\* how often token c occurs in toks
Occurrences(c, toks) == Cardinality({ k \in 1..Len(toks) : toks[k] = c })

\* the tokens of chosen that are not in before, each once, in encounter order
NewInEncounterOrder(chosen, before) ==
  LET firsts == { k \in 1..Len(chosen) :
                    /\ chosen[k] \notin Range(before)
                    /\ \A j \in 1..(k - 1) : chosen[j] # chosen[k] }
  IN  SelectSeq([k \in 1..Len(chosen) |-> IF k \in firsts THEN chosen[k] ELSE <<>>],
                LAMBDA c : c # <<>>)

\* C8 as stated: after an Exclude with chosen categories the account's
\* serp_exc_cat is its earlier tokens in their order followed by the chosen
\* tokens that were not yet present, in encounter order, and every chosen
\* token occurs in it exactly once.
C8_MergedCategoriesOnce ==
  [][ \A i \in 1..Len(tasks) :
        ( /\ tasks[i].pc = "xUpdateCat"
          /\ Stepped(i)
          /\ serp_exc_cat' # serp_exc_cat ) =>
          LET acct == tasks[i].acct
              chosen == CategoriesToAdd(tasks[i].cats, tasks[i].custom)
              before == Tokens(serp_exc_cat[acct])
              after == Tokens(serp_exc_cat'[acct])
          IN  /\ after = before \o NewInEncounterOrder(chosen, before)
              /\ \A k \in 1..Len(chosen) : Occurrences(chosen[k], after) = 1 ]_vars

\* C9: an Exclude with no checkbox category and an empty custom-category
\* string neither reads nor writes the account record: serp_exc_cat stays as
\* it is.
C9_NoCategoryNoAccountWrite ==
  [][ \A i \in 1..Len(tasks) :
        ( /\ tasks[i].op = "exclude"
          /\ tasks[i].pc \in {"xToken", "xUpdate"}
          /\ tasks[i].cats = <<>>
          /\ tasks[i].custom = <<>>
          /\ Stepped(i) ) =>
          /\ serp_exc_cat' = serp_exc_cat
          /\ Len(tasks') = Len(tasks) => tasks'[i].pc \in {"xUpdate", "token"} ]_vars

\* an Exclude without categories has gone through: lead 2 is excluded and the
\* exclusion set is still empty
C9_Witness ==
  /\ successMessage = "Successfully excluded"
  /\ user_leads[2].excluded >= 2
  /\ selectedCategories = <<>>
  /\ serp_exc_cat[Me] = <<>>

\* C10: no step of Restore changes serp_exc_cat; the categories an earlier
\* Exclude merged are still there after the leads are restored.
C10_RestoreKeepsCategories ==
  [][ /\ \A i \in 1..Len(tasks) :
           (tasks[i].op = "restore" /\ Stepped(i)) => serp_exc_cat' = serp_exc_cat
      /\ ( /\ Len(tasks') = Len(tasks) + 1
           /\ tasks'[Len(tasks')].op = "restore" ) => serp_exc_cat' = serp_exc_cat ]_vars

\* lead 1, excluded by an earlier session that also merged "b,a", has been
\* restored and the set still reads "b,a"
C10_Witness ==
  /\ successMessage = "Successfully restored"
  /\ user_leads[1].excluded = NotExcluded
  /\ serp_exc_cat[Me] = <<"b", ",", "a">>

\* the step in which the user_leads update of Restore run i succeeds
RestoreUpdated(i) ==
  /\ tasks[i].op = "restore"
  /\ tasks[i].pc = "rUpdate"
  /\ Len(tasks') = Len(tasks)
  /\ tasks'[i].pc = "token"

\* the selection of Restore run i holds a lead that is already included
RestoresIncludedLead(i) ==
  \E a \in DOMAIN user_leads :
    /\ user_leads[a].user_id = tasks[i].acct
    /\ user_leads[a].lead_id \in tasks[i].sel
    /\ user_leads[a].excluded = NotExcluded

\* C11: a Restore whose update succeeds leaves excluded null on every selected
\* association of the account, whether it was excluded or already included,
\* leaves the other associations alone, shows the success notice, and a
\* second application of the same update would change nothing.
C11_RestoreIdempotent ==
  [][ \A i \in 1..Len(tasks) :
        RestoreUpdated(i) =>
          /\ \A a \in DOMAIN user_leads :
               IF /\ user_leads[a].user_id = tasks[i].acct
                  /\ user_leads[a].lead_id \in tasks[i].sel
               THEN user_leads'[a] = [user_leads[a] EXCEPT !.excluded = NotExcluded]
               ELSE user_leads'[a] = user_leads[a]
          /\ DOMAIN user_leads' = DOMAIN user_leads
          /\ successMessage' = "Successfully restored"
          /\ UpdateExcluded(user_leads', tasks[i].acct, tasks[i].sel, NotExcluded)
               = user_leads' ]_vars

\* a Restore is about to update a lead that is already included
C11_Witness ==
  \E i \in 1..Len(tasks) :
    /\ tasks[i].op = "restore"
    /\ tasks[i].pc = "rUpdate"
    /\ RestoresIncludedLead(i)

\* one or more non-empty groups of lowercase letters and underscores, joined
\* by single commas
CategoryGroups(str) ==
  LET groups == Split(str, ",")
  IN  \A k \in 1..Len(groups) :
        /\ Len(groups[k]) >= 1
        /\ \A j \in 1..Len(groups[k]) : IsLowerOrUnderscore(groups[k][j])

\* nothing but white space, the empty string included
Blank(str) == \A j \in 1..Len(str) : IsSpace(str[j])

\* an Exclude run that has not yet finished its writes
ExcludeWriting(i) ==
  tasks[i].op = "exclude" /\ tasks[i].pc \in {"xToken", "xUpdate", "xFetchCat", "xUpdateCat"}

\* C12 as stated: the typed string is accepted iff it is empty or made of
\* comma-joined groups, and no Exclude run works with a rejected string.
C12_AcceptedIffEmptyOrGroups ==
  /\ ~customCategoryError <=> (customCategory = <<>> \/ CategoryGroups(customCategory))
  /\ \A i \in 1..Len(tasks) :
       ExcludeWriting(i) => (tasks[i].custom = <<>> \/ CategoryGroups(tasks[i].custom))

\* C12, amended: the typed string is accepted iff it is blank (empty or white
\* space only) or made of comma-joined groups of lowercase letters and
\* underscores; every Exclude run, hence every write of Exclude, works with
\* an accepted string.
C12_AcceptedIffBlankOrGroups ==
  /\ ~customCategoryError <=> (Blank(customCategory) \/ CategoryGroups(customCategory))
  /\ \A i \in 1..Len(tasks) :
       ExcludeWriting(i) => (Blank(tasks[i].custom) \/ CategoryGroups(tasks[i].custom))

\* the dialog is open and shows the error for a string with a trailing comma
C12_Witness ==
  /\ excludeDialogOpen
  /\ customCategory = <<"a", ",", "b", ",">>
  /\ customCategoryError
  /\ tasks = <<>>

\* an Exclude or Restore run that has not yet finished its writes
OperationWriting(i) ==
  \/ ExcludeWriting(i)
  \/ tasks[i].op = "restore" /\ tasks[i].pc \in {"rToken", "rUpdate"}

\* C13 as stated: Exclude and Restore go past their entry checks only with an
\* account id and a non-empty selection, so no run that writes exists without
\* them.
C13_NoRunWithoutAccountOrSelection ==
  \A i \in 1..Len(tasks) :
    OperationWriting(i) => (tasks[i].acct # NoAccount /\ tasks[i].sel # {})

\* an autosave is pending or in flight: the timeout of the autosave effect is
\* set, or a run of autoSaveSerpSettings has not returned yet
AutoSavePending ==
  \/ autoSaveTimer
  \/ \E i \in 1..Len(serpRuns) : serpRuns[i].op = "autosave"

\* a run of loadAccountNumber / loadSerpSettings has not returned yet
LoadRunning ==
  \E i \in 1..Len(serpRuns) : serpRuns[i].pc \in {"aToken", "aQuery", "sToken", "sQuery"}

\* this step is the return of an autosave's update that wrote the row
AutoSaveWrites ==
  \E i \in 1..Len(serpRuns) :
    /\ serpRuns[i].op = "autosave" /\ serpRuns[i].pc = "update"
    /\ serpRuns' = RemoveAt(serpRuns, i)
    /\ serpError' = ""
    /\ serpMessage' = SavedAutomatically

\* C14: no autosave is pending or in flight, and none writes the account's row,
\* before the stored settings have been loaded into the fields
\* (serpDataLoaded); once the load has ended without loading them, by a
\* failure or by finding nothing, serpDataLoaded stays false, so no autosave
\* ever fires.
C14_AutosaveOnlyWhenLoaded ==
  [][ /\ AutoSavePending' => serpDataLoaded'
      /\ AutoSaveWrites => serpDataLoaded
      /\ (~serpDataLoaded /\ ~LoadRunning) => (~serpDataLoaded' /\ ~AutoSavePending') ]_vars

\* an autosave has written the fields typed after the load
C14_Witness ==
  /\ serpDataLoaded
  /\ serpMessage = SavedAutomatically
  /\ serpKeywords # <<>>
  /\ user_accounts.serp_keywords = OrNull(cleanCommaSeparatedValues(serpKeywords, TRUE))
  /\ events > 0

\* validation of the location codes is in flight, or one of the three
\* invalid-item lists is non-empty
Suppressed ==
  \/ isValidatingCodes
  \/ ~NoInvalidItems(invalidLocationCodes, invalidCategoryItems,
                     invalidExcludedCategoryItems)

\* this step starts a run of autoSaveSerpSettings that goes past its checks
AutoSaveStarts ==
  /\ Len(serpRuns') = Len(serpRuns) + 1
  /\ serpRuns'[Len(serpRuns')].op = "autosave"

\* this step issues the update of an autosave (the await of getToken returns
\* a token and the request is sent)
AutoSaveIssues ==
  \E i \in 1..Len(serpRuns) :
    /\ serpRuns[i].op = "autosave" /\ serpRuns[i].pc = "token"
    /\ Len(serpRuns') = Len(serpRuns)
    /\ serpRuns'[i].pc = "update"

\* C15 as stated: no update of an autosave is issued while validation is in
\* flight or an invalid-item list is non-empty, and entering such a state sets
\* no error.
C15_NoWriteWhileSuppressed ==
  [][ /\ Suppressed => ~AutoSaveIssues
      /\ (Suppressed' /\ ~Suppressed) => serpError' = serpError ]_vars

\* C15, amended: while validation is in flight or an invalid-item list is
\* non-empty no autosave is pending and none starts, and entering such a
\* state sets no error; an autosave that started before may still issue its
\* update, with the field values it started with.
C15_NoAutosaveStartsWhileSuppressed ==
  [][ /\ Suppressed => (~autoSaveTimer /\ ~AutoSaveStarts)
      /\ (Suppressed' /\ ~Suppressed) => (serpError' = serpError /\ ~autoSaveTimer')
      /\ AutoSaveIssues =>
           \E i \in 1..Len(serpRuns) :
             /\ serpRuns'[i].pc = "update"
             /\ validateCategoryField(serpRuns[i].category) = <<>>
             /\ validateCategoryField(serpRuns[i].excludedCategory) = <<>> ]_vars

\* the loaded form holds a category that is not accepted, nothing is pending
\* and no error is shown
C15_Witness ==
  /\ serpDataLoaded
  /\ invalidCategoryItems # <<>>
  /\ serpCategory # OrEmpty(user_accounts.serp_cat)
  /\ ~autoSaveTimer
  /\ serpRuns = <<>>
  /\ serpError = ""

\* every location code of the stored text is in the reference table
PersistedCodesKnown(col) ==
  LET codes == Tokens(OrEmpty(col))
  IN  \A k \in 1..Len(codes) : codes[k] \in GoogleLocations

\* every category of the stored text is made of letters and underscores
PersistedCategoriesClean(col) ==
  LET cats == Tokens(OrEmpty(col))
  IN  \A k \in 1..Len(cats) : LettersAndUnderscores(cats[k])

\* C16 as stated: whatever the edits, validations and saves, the stored
\* serp_locations holds only location codes of the reference table and the
\* stored serp_cat and serp_exc_cat hold only tokens of letters and
\* underscores.
C16_NoInvalidInputPersisted ==
  /\ PersistedCodesKnown(user_accounts.serp_locations)
  /\ PersistedCategoriesClean(user_accounts.serp_cat)
  /\ PersistedCategoriesClean(serp_exc_cat[Me])

\* the part of C16 about the two category columns
C16_CategoriesPart ==
  /\ PersistedCategoriesClean(user_accounts.serp_cat)
  /\ PersistedCategoriesClean(serp_exc_cat[Me])

\* n spaces
Spaces(n) == [k \in 1..n |-> " "]

\* token is the comma-free piece of text without the white space around it
\* and, where spaces are not allowed, without the white space inside it
TokenOf(token, piece, allowSpaces) ==
  /\ Len(token) > 0
  /\ ~IsSpace(token[1]) /\ ~IsSpace(token[Len(token)])
  /\ IF allowSpaces
     THEN \E a, b \in 0..Len(piece) : piece = Spaces(a) \o token \o Spaces(b)
     ELSE /\ \A k \in 1..Len(token) : ~IsSpace(token[k])
          /\ \E f \in [1..Len(token) -> 1..Len(piece)] :
               /\ \A k \in 1..Len(token) : piece[f[k]] = token[k]
               /\ \A k \in 1..(Len(token) - 1) : f[k] < f[k + 1]
               /\ \A j \in 1..Len(piece) :
                    (\A k \in 1..Len(token) : f[k] # j) => IsSpace(piece[j])

\* col is what the normalization of value has to store: the pieces of value
\* between commas that are not blank, each as a token, in the same order,
\* joined by single commas; NULL when there is none
PersistedAs(col, value, allowSpaces) ==
  LET pieces == SelectSeq(Split(value, ","), LAMBDA g : ~Blank(g))
      tokens == IF col = Null THEN <<>> ELSE Split(col, ",")
  IN  /\ col # <<>>
      /\ Len(tokens) = Len(pieces)
      /\ \A k \in 1..Len(tokens) : TokenOf(tokens[k], pieces[k], allowSpaces)
      /\ cleanCommaSeparatedValues(OrEmpty(col), allowSpaces) = OrEmpty(col)

\* this step is the return of the update of run i, autosave or search, that
\* wrote the row
SettingsWritten(i) ==
  /\ serpRuns[i].pc = "update"
  /\ \/ /\ serpRuns[i].op = "autosave"
        /\ serpRuns' = RemoveAt(serpRuns, i)
        /\ serpError' = ""
     \/ /\ serpRuns[i].op = "search"
        /\ \/ Len(serpRuns') = Len(serpRuns) /\ serpRuns'[i].pc = "clerkToken"
           \/ serpRuns' = RemoveAt(serpRuns, i) /\ serpError' = NoAccountNumber

\* C17: every save stores each field in normalized form: the non-blank pieces
\* between commas, trimmed, with inner white space removed for the two
\* category fields and the locations and kept for keywords and states, joined
\* by single commas; NULL, never the empty string, when nothing is left; and
\* normalizing the stored value again returns it unchanged.
C17_PersistedNormalized ==
  [][ \A i \in 1..Len(serpRuns) :
        SettingsWritten(i) =>
          /\ PersistedAs(user_accounts'.serp_keywords, serpRuns[i].keywords, TRUE)
          /\ PersistedAs(user_accounts'.serp_cat, serpRuns[i].category, FALSE)
          /\ PersistedAs(serp_exc_cat'[Me], serpRuns[i].excludedCategory, FALSE)
          /\ PersistedAs(user_accounts'.serp_locations, serpRuns[i].locations, FALSE)
          /\ PersistedAs(user_accounts'.serp_states, serpRuns[i].states, TRUE) ]_vars

\* an autosave has stored the loaded locations "1 1" as "11", the loaded
\* categories " a,,b " as "a,b" and the blank keywords as NULL
C17_Witness ==
  /\ serpMessage = SavedAutomatically
  /\ serpLocations = <<"1", " ", "1">>
  /\ user_accounts.serp_locations = <<"1", "1">>
  /\ serpCategory = <<" ", "a", ",", ",", "b", " ">>
  /\ user_accounts.serp_cat = <<"a", ",", "b">>
  /\ serpKeywords = <<" ", ",", " ">>
  /\ user_accounts.serp_keywords = Null

\* this step is a request to the edge function that was not a preflight
Swept == Len(sweepLog') = Len(sweepLog) + 1 /\ sweepLog'[Len(sweepLog')].method = "POST"

\* the drafts exported before the day that lies RetentionDays before now
ExportedBeforeCutoff ==
  { d \in email_drafts : d.exported \in 1..(clock - RetentionDays - 1) }

\* C18: a run of the retention sweep that reports success has deleted exactly
\* the drafts whose exported is set and earlier than 30 days before the run,
\* and reports their number; no request, failed ones included, deletes a
\* draft that is not exported or was exported within the last 30 days, and
\* nothing else changes the table.
C18_SweepDeletesExactlyOld ==
  [][ /\ email_drafts' \subseteq email_drafts
      /\ (email_drafts \ email_drafts') \subseteq ExportedBeforeCutoff
      /\ email_drafts' # email_drafts => Swept
      /\ (Swept /\ sweepLog'[Len(sweepLog')].success) =>
           /\ email_drafts' = email_drafts \ ExportedBeforeCutoff
           /\ sweepLog'[Len(sweepLog')].deletedCount = Cardinality(ExportedBeforeCutoff) ]_vars

\* a sweep has deleted one draft and kept a draft exported exactly on the
\* cutoff day and a draft not exported
C18_Witness ==
  /\ sweepLog # <<>>
  /\ sweepLog[Len(sweepLog)].method = "POST"
  /\ sweepLog[Len(sweepLog)].success
  /\ sweepLog[Len(sweepLog)].deletedCount = 1
  /\ \E d \in email_drafts : d.exported = sweepLog[Len(sweepLog)].cutoffDate
  /\ \E d \in email_drafts : d.exported = NotExported
  /\ clock - RetentionDays = sweepLog[Len(sweepLog)].cutoffDate

\* C19: a successful run of the sweep that follows a successful run with the
\* same cutoff deletes nothing and leaves the table as the first run left it;
\* the table a successful run leaves holds nothing the same cutoff would
\* delete.
C19_SweepIdempotent ==
  [][ (Swept /\ sweepLog'[Len(sweepLog')].success) =>
        /\ OldDrafts(email_drafts', clock - RetentionDays) = {}
        /\ ( /\ sweepLog # <<>>
             /\ sweepLog[Len(sweepLog)].method = "POST"
             /\ sweepLog[Len(sweepLog)].success
             /\ sweepLog[Len(sweepLog)].cutoffDate = clock - RetentionDays ) =>
             /\ email_drafts' = email_drafts
             /\ sweepLog'[Len(sweepLog')].deletedCount = 0 ]_vars

\* two successful runs with the same cutoff: the first deleted drafts, the
\* second none
C19_Witness ==
  /\ Len(sweepLog) >= 2
  /\ LET first == sweepLog[Len(sweepLog) - 1]
         second == sweepLog[Len(sweepLog)]
     IN  /\ first.success /\ second.success
         /\ first.cutoffDate = second.cutoffDate
         /\ first.method = "POST" /\ second.method = "POST"
         /\ first.deletedCount > 0
         /\ second.deletedCount = 0
  /\ email_drafts # {}

\* C20 as stated: in every reachable state no token occurs twice in the
\* account's serp_exc_cat.
C20_ExcludedCategoriesDistinct ==
  LET toks == Tokens(OrEmpty(serp_exc_cat[Me]))
  IN  \A k \in 1..Len(toks) : Occurrences(toks[k], toks) = 1

\* the serp_exc_cat fetch of Exclude run i did not deliver the row: the run
\* takes a step out of it that does not go on to the serp_exc_cat update
ExcCatFetchFails(i) ==
  /\ tasks[i].op = "exclude"
  /\ tasks[i].pc = "xFetchCat"
  /\ Stepped(i)
  /\ ~(Len(tasks') = Len(tasks) /\ tasks'[i].pc = "xUpdateCat")

\* the serp_exc_cat update of Exclude run i did not store the merged value
ExcCatUpdateFails(i) ==
  /\ tasks[i].op = "exclude"
  /\ tasks[i].pc = "xUpdateCat"
  /\ Stepped(i)
  /\ serp_exc_cat'[tasks[i].acct] # tasks[i].newCat

\* C21 as stated: a failed serp_exc_cat fetch or update of Exclude aborts the
\* operation: the run ends there, sets no success notice and starts no
\* reload.
C21_FailedQueryAbortsOperation ==
  [][ \A i \in 1..Len(tasks) :
        (ExcCatFetchFails(i) \/ ExcCatUpdateFails(i)) =>
          /\ tasks' = RemoveAt(tasks, i)
          /\ successMessage' = successMessage ]_vars

\* C22: nothing guards a loadLeads run against a newer one.  A run that gets
\* as far as filtering assigns totalRecords, totalPages and its page, and a
\* run that completes assigns leads, all computed from the view, page and
\* page size of the render that started it, whatever is selected by then and
\* whichever other runs are in flight.
C22_RunWritesResultsOfItsOwnParameters ==
  [][ \A i \in 1..Len(tasks) :
        /\ ( /\ tasks[i].pc \in {"leadEmails", "drafts"}
             /\ Len(tasks') = Len(tasks)
             /\ tasks'[i].pc = "hydrate" ) =>
             /\ totalRecords' = Len(filteredUserLeads')
             /\ totalPages' = CeilDiv(Len(filteredUserLeads'), tasks[i].perPage)
             /\ tasks'[i].paged =
                  PageSlice(filteredUserLeads', tasks[i].page, tasks[i].perPage)
             /\ \A k \in 1..Len(filteredUserLeads') :
                  (filteredUserLeads'[k].excluded # NotExcluded)
                    <=> tasks[i].excludedView
        /\ ( /\ tasks[i].pc = "hydrate"
             /\ tasks' = RemoveAt(tasks, i)
             /\ leads' # leads ) =>
             LeadIds(leads') =
               { tasks[i].paged[k].lead_id : k \in 1..Len(tasks[i].paged) } ]_vars

\* the excluded view was switched on and off again; the run started for the
\* excluded view answered last, and its leads and totals are on display under
\* the normal view with no run left
C22_Witness ==
  /\ tasks = <<>>
  /\ error = ""
  /\ events = 2
  /\ ~showExcludedLeads
  /\ currentPage = 1
  /\ Len(leads) > 0
  /\ \A k \in 1..Len(leads) : leads[k].excluded # NotExcluded
  /\ totalRecords = Len(filteredUserLeads)
  /\ \A k \in 1..Len(filteredUserLeads) : filteredUserLeads[k].excluded # NotExcluded

\* C26 as stated: the leads a completed loadLeads run displays are the leads
\* of its page slice, in the order of the slice (the order of the association
\* list), each with the excluded value of its association.
C26_DisplayedInSliceOrder ==
  [][ \A i \in 1..Len(tasks) :
        ( /\ tasks[i].pc = "hydrate"
          /\ tasks' = RemoveAt(tasks, i)
          /\ leads' # leads ) =>
          leads' = [k \in 1..Len(tasks[i].paged) |->
                      [id |-> tasks[i].paged[k].lead_id,
                       excluded |-> tasks[i].paged[k].excluded]] ]_vars

\* run i was started by the filter effect for the filters now selected, in
\* the render that still had the page number from before the reset
PreResetLoad(i) ==
  /\ tasks[i].op = "load"
  /\ tasks[i].page # 1
  /\ currentPage = 1
  /\ tasks[i].perPage = recordsPerPage
  /\ tasks[i].excludedView = showExcludedLeads
  /\ tasks[i].withoutEmails = showWithoutEmails
  /\ tasks[i].emailedToo = showEmailedLeads

\* C27 as stated: when the last loadLeads run in flight is the one the filter
\* effect started with the page number from before the reset, and no failure
\* is on display once it has ended, the leads on display are page 1 of the
\* filtered list (no leads when the list is empty).
C27_FinalDisplayIsPageOne ==
  [][ ( /\ Len(tasks) = 1
        /\ PreResetLoad(1)
        /\ tasks' = <<>>
        /\ error' = "" ) =>
        IF totalRecords' = 0
        THEN leads' = <<>>
        ELSE LeadIds(leads') =
               LET first == PageSlice(filteredUserLeads', 1, recordsPerPage)
               IN  { first[k].lead_id : k \in 1..Len(first) } ]_vars

\* C25: a triggerEmailGeneration run sets the success notice and empties the
\* selection in the step that follows a 2xx answer of the webhook and in no
\* other step; it starts its reload only out of the delay that follows that
\* step; and a run that ends before (a status other than 2xx, a thrown
\* error, a missing token or account) leaves the selection and the notice as
\* they were and starts no run.
C25_GenerationSuccessAndFailure ==
  [][ \A i \in 1..Len(tasks) :
        ( /\ tasks[i].op = "generate"
          /\ tasks[i].pc \in ModalPcs \cup GeneratePcs
          /\ Stepped(i) ) =>
          IF Len(tasks') = Len(tasks)
          THEN /\ tasks'[i].pc = "gBody" => tasks[i].pc = "gFetch"
               /\ tasks'[i].pc = "gDelay" => tasks[i].pc = "gBody"
               /\ tasks'[i].pc \in LoadPcs =>
                    (tasks[i].pc = "gDelay" /\ tasks'[i].pc = "token")
               /\ IF tasks'[i].pc = "gDelay"
                  THEN successMessage' = "Successfully generated" /\ selectedLeads' = {}
                  ELSE successMessage' = successMessage /\ selectedLeads' = selectedLeads
          ELSE /\ tasks' = RemoveAt(tasks, i)
               /\ successMessage' = successMessage
               /\ selectedLeads' = selectedLeads ]_vars

\* the webhook answered 2xx, the notice is up, the selection is empty and the
\* run is inside its reload
C25_Witness ==
  \E i \in 1..Len(tasks) :
    /\ tasks[i].op = "generate"
    /\ tasks[i].pc = "userLeads"
    /\ successMessage = "Successfully generated"
    /\ selectedLeads = {}

\* C28 as stated: whenever no run is in flight, the current page lies between
\* 1 and the number of pages (1 when there are none).
C28_CurrentPageWithinPages ==
  tasks = <<>> => (1 <= currentPage /\ currentPage <= Max(1, totalPages))

\* a loadLeads, Restore, Exclude or triggerEmailGeneration run is in flight
RunInFlight == \E i \in 1..Len(tasks) : tasks[i].pc \notin ModalPcs

\* C29 as stated: isLoading is true whenever a loadLeads, Restore, Exclude or
\* email-generation run is in flight.
C29_LoadingWhileRunInFlight == RunInFlight => isLoading

\* C30: when every await eventually returns, the runs in flight all come to
\* an end, and whenever no run is in flight isLoading is false, whichever
\* way the runs ended.
C30_RunsEndAndLoadingClears ==
  /\ [](tasks = <<>> => ~isLoading)
  /\ (tasks # <<>>) ~> (tasks = <<>>)

\* an email generation went through and its reload ended in the catch of
\* loadLeads: no run is left and the page is not loading
C30_Witness ==
  /\ tasks = <<>>
  /\ ~isLoading
  /\ successMessage = "Successfully generated"
  /\ error = LoadThrew

\* the step in which Exclude or Restore run i reports success and calls
\* loadLeads
OperationSucceeds(i) ==
  /\ tasks[i].op \in {"exclude", "restore"}
  /\ tasks[i].pc \notin LoadPcs
  /\ Len(tasks') = Len(tasks)
  /\ tasks'[i].pc = "token"

\* the step in which the reload of Exclude or Restore run i puts its leads
\* on display
ReloadDisplays(i) ==
  /\ tasks[i].op \in {"exclude", "restore"}
  /\ tasks[i].pc = "hydrate"
  /\ tasks' = RemoveAt(tasks, i)
  /\ leads' # leads

\* C24 as stated: when Exclude or Restore reports success the selection is
\* empty, the notice of the operation is set and every association of the
\* account for a selected lead already carries the new excluded value; the
\* reload starts in that step and not before; and the leads that reload puts
\* on display contain none of the leads the operation had selected, no
\* excluded lead after Exclude and only excluded leads after Restore.
C24_SuccessThenReloadReflectsMutation ==
  [][ \A i \in 1..Len(tasks) :
        /\ ( /\ tasks[i].op \in {"exclude", "restore"}
             /\ tasks[i].pc \notin LoadPcs
             /\ Stepped(i)
             /\ ~OperationSucceeds(i) ) =>
             /\ \/ tasks' = RemoveAt(tasks, i)
                \/ tasks'[i].pc \notin LoadPcs
             /\ successMessage' = successMessage
        /\ OperationSucceeds(i) =>
             /\ selectedLeads' = {}
             /\ successMessage' = IF tasks[i].op = "exclude"
                                  THEN "Successfully excluded"
                                  ELSE "Successfully restored"
             /\ \A a \in DOMAIN user_leads' :
                  ( /\ user_leads'[a].user_id = tasks[i].acct
                    /\ user_leads'[a].lead_id \in tasks[i].sel ) =>
                    ((user_leads'[a].excluded # NotExcluded)
                       <=> tasks[i].op = "exclude")
        /\ ReloadDisplays(i) =>
             \A k \in 1..Len(leads') :
               /\ leads'[k].id \notin tasks[i].sel
               /\ (leads'[k].excluded # NotExcluded) <=> tasks[i].op = "restore" ]_vars

\* ---------------------------------------------------------------- C23
\* the fields of the current render, as a timeout set now would capture them
CurrentFields ==
  [keywords |-> serpKeywords, category |-> serpCategory,
   excludedCategory |-> serpExcludedCategory, locations |-> serpLocations,
   states |-> serpStates]

\* the fields an autosave run captured when its timeout fired
CapturedFields(r) ==
  [keywords |-> r.keywords, category |-> r.category,
   excludedCategory |-> r.excludedCategory, locations |-> r.locations,
   states |-> r.states]

\* what holds of the debounce whether or not a timer is started: at most one
\* timeout is pending and it closes over the fields on display, so it fires
\* only if no field changed since it was set; the run it starts captures
\* those fields, and the write of that run stores their cleaned values; the
\* unmount leaves no timeout pending and none is set afterwards.
DebounceKept ==
  /\ Len(autoSaveTimers') <= 1
  /\ \A k \in 1..Len(autoSaveTimers') : autoSaveTimers'[k] = RenderedFields
  /\ AutoSaveStarts =>
       /\ autoSaveTimer
       /\ CapturedFields(serpRuns'[Len(serpRuns')]) = CurrentFields
  /\ \A i \in 1..Len(serpRuns) :
       ( /\ serpRuns[i].op = "autosave" /\ serpRuns[i].pc = "update"
         /\ serpRuns' = RemoveAt(serpRuns, i)
         /\ serpMessage' = SavedAutomatically /\ serpError' = "" ) =>
         /\ user_accounts' = CleanedRow(serpRuns[i])
         /\ serp_exc_cat'[Me] =
              OrNull(cleanCommaSeparatedValues(serpRuns[i].excludedCategory, FALSE))
  /\ ~serpMounted' => autoSaveTimers' = <<>>

\* C23 as stated: the settings autosave is a last-keystroke-wins debounce.
\* Every change of a tracked field on the mounted, loaded page cancels the
\* pending autosave timer and starts a new one, so that exactly the new timer
\* is pending after it; at most one timer is pending at any time, a save
\* fires only when no tracked field changed since its timer was started, it
\* persists the latest field values, and a pending timer is discarded on
\* unmount.
C23_EveryFieldChangeRestartsTimer ==
  [][ /\ DebounceKept
      /\ (serpMounted /\ serpDataLoaded /\ serpFields' # serpFields) =>
           autoSaveTimers' = <<RenderedFields>> ]_vars

\* C23 amended: every change of a tracked field cancels the pending autosave
\* timer, and a new one is started only if the page is mounted, the settings
\* are loaded, no validation is in flight and the three invalid-item lists
\* are empty after the change; otherwise no timer is pending after it. At
\* most one timer is pending at any time, it fires only when no tracked
\* field changed since it was started, the save it starts captures the
\* fields on display and its write stores their cleaned values, and a
\* pending timer is discarded on unmount.
C23_FieldChangeRestartsTimerWhenArmed ==
  [][ /\ DebounceKept
      /\ serpFields' # serpFields =>
           autoSaveTimers' = IF ArmedAfterRender THEN <<RenderedFields>> ELSE <<>> ]_vars

\* after two edits the autosave has stored the cleaned values of the fields
\* on display, the typed keywords among them, and no timer is pending
C23_Witness ==
  /\ serpMounted
  /\ events = 2
  /\ serpKeywords = <<" ", "a", " ", "b", ",", " ", ",", "c", " ">>
  /\ serpMessage = SavedAutomatically
  /\ user_accounts = CleanedRow(CurrentFields)
  /\ autoSaveTimers = <<>>
  /\ serpRuns = <<>>

====
